---- MODULE Spec2Model ----
(***************************************************************************)
(* The upload-and-report pipeline of the upload-sarif action.              *)
(*                                                                         *)
(* One job is a sequence of process invocations (steps), each executing    *)
(* run() of lib/upload-sarif.js.  The processes of a job share the         *)
(* environment store (process.env as propagated by core.exportVariable).   *)
(* Within a process execution is sequential: every await completes before  *)
(* the next statement runs, so a process is a program counter walking      *)
(* through run(), createStatusReportBase, sendStatusReport, upload,        *)
(* uploadFiles and uploadPayload.                                          *)
(***************************************************************************)
EXTENDS Integers, Sequences, FiniteSets, TLC

\* ------------------------------------------------------------------ bounds
\* Number of process invocations (steps running upload-sarif) in one job.
MaxInvocations == 3
\* Number of .sarif files one upload is given.
MaxFiles == 2
\* Number of runs in a document given to getToolNames.
MaxRuns == 3
\* Largest array index the model of Object.keys recognises as one.
MaxArrayIndex == 10

\* --------------------------------------------------------- program constants
\* The value JavaScript reads for a missing environment variable or field.
Undefined == "<undefined>"
\* The JavaScript value null.
Null == "<null>"
\* A response without a status (response.status is undefined).
NoStatus == 0
\* The only status uploadPayload accepts as success.
Accepted == 202
\* Lower and upper limit of the retryable statuses.
ServerErrorMin == 500
ServerErrorLimit == 600

sentinelEnvVar == "CODEQL_UPLOAD_SARIF"
CODEQL_ACTION_ANALYSIS_KEY == "CODEQL_ACTION_ANALYSIS_KEY"
CODEQL_WORKFLOW_STARTED_AT == "CODEQL_WORKFLOW_STARTED_AT"
EnvKeys == {sentinelEnvVar, CODEQL_ACTION_ANALYSIS_KEY, CODEQL_WORKFLOW_STARTED_AT}

\* Seconds slept after a 5xx answer to attempt 0, 1, 2 (1-indexed here).
backoffPeriods == <<1, 5, 15>>

\* ------------------------------------------------------------ input domains
\* Paths the workflow-metadata lookup may answer with.
WorkflowPaths == {".github/workflows/a.yml", ".github/workflows/b.yml"}
\* GITHUB_JOB of the job.
JobName == "analyze"
\* Statuses the upload endpoint may answer with.
UploadStatuses == {NoStatus, 200, Accepted, 499, ServerErrorMin, 599, ServerErrorLimit}
RequestIDs == {"req-1", "req-2"}
Bodies == {"body-1", "body-2"}
UploadResponses == [status : UploadStatuses, requestID : RequestIDs, data : Bodies]
\* Statuses the status endpoint may answer with.
ReportStatuses == {200, 403, 404, 500}
\* GITHUB_REF of a process: unset, empty, or a ref.
Refs == {Undefined, "", "refs/heads/main"}
\* CODEQL_ACTION_INIT_COMPLETED of a process: unset or set by the init action.
InitCompleted == {Undefined, "true"}
\* SARIF versions an input file may declare.
Versions == {"2.1.0", "2.0.0"}
\* One run of a tool, and the run lists an input file may hold (the files
\* of a job each hold one run here; the functions over runs take the lists
\* as they come).
Run1 == [tool |-> [driver |-> [name |-> [type |-> "string", value |-> "CodeQL"]]],
         results |-> <<"alert-1">>]
RunLists == {<<Run1>>}
\* Violations the schema validator may report of a file (their stacks).
Violations == <<"instance requires property \"version\"",
                "instance.runs is not of a type(s) array">>
\* result.errors of a file that does not pass the schema.
ErrorLists == {<<Violations[1]>>, <<Violations[2]>>, Violations}
\* An input file: whether it passes the schema (result.valid), the errors
\* the validator reports of it (result.errors), its version and its runs.
SarifFile ==
  {[valid |-> errs = <<>>, errors |-> errs, version |-> v, runs |-> r] :
     errs \in {<<>>} \cup ErrorLists, v \in Versions, r \in RunLists}
FileLists(n) == UNION {[1..k -> SarifFile] : k \in 0..n}
\* The value of the sarif_file input of the action, a path.
InputPath == "/results"
\* A name in a directory, as its stem and its extension; the i-th .sarif
\* file of a directory.
SarifName(i) == [stem |-> "f" \o ToString(i), ext |-> ".sarif"]
\* A file that is not SARIF at all.
NotSarif == [valid |-> FALSE, errors |-> Violations, version |-> Undefined,
             runs |-> <<>>]
\* Other children a directory may have: a file of another kind, and a
\* subdirectory (which holds .sarif files of its own).
OtherFile == [name |-> [stem |-> "notes", ext |-> ".json"], file |-> NotSarif]
Subdirectory == [name |-> [stem |-> "nested", ext |-> ""], file |-> NotSarif]
OtherLists == {<<>>, <<OtherFile>>, <<Subdirectory>>,
               <<OtherFile, Subdirectory>>}
\* What the path given to upload refers to: nothing, a file, or a
\* directory with its .sarif files and its other children.
Inputs == {[kind |-> "missing", files |-> <<>>, others |-> <<>>]}
          \cup {[kind |-> "file", files |-> <<f>>, others |-> <<>>] :
                  f \in SarifFile}
          \cup {[kind |-> "dir", files |-> fs, others |-> o] :
                  fs \in FileLists(MaxFiles), o \in OtherLists}

\* No value thrown; for a thrown value, text is what it reads as a string.
NoError == [thrown |-> FALSE, message |-> Undefined, stack |-> Undefined,
            text |-> Undefined]
NoResponse == [status |-> NoStatus, requestID |-> Undefined, data |-> Undefined]
NoReport == [status |-> Undefined]
NoStats == [num_results_in_sarif |-> -1]
NoPayload == [analysis_key |-> Undefined]
NoInput == [kind |-> "none"]
\* fs.existsSync answers false for the parsed config file.
NoFile == [exists |-> FALSE]
\* No initConfig call has completed in the job.
NoConfig == [completed |-> FALSE]

VARIABLES
  env,            \* the environment store shared by the processes of the job
  inv,            \* number of processes started so far in the job
  pc,             \* position of the running process ("idle": none is running)
  phase,          \* part of run() being executed
  startedAt,      \* run(): const startedAt = new Date()
  testMode,       \* process.env['TEST_MODE'] === 'true' in this process
  sarifFiles,     \* uploadFiles: the files to upload
  fileIdx,        \* uploadFiles: index of the next file to validate
  analysisKey,    \* value returned by the last getAnalysisKey call
  payload,        \* uploadFiles: the payload handed to uploadPayload
  attempt,        \* uploadPayload: loop index
  response,       \* uploadPayload: the last response received
  error,          \* the error caught or propagated in this process
  failed,         \* core.setFailed has been called in this process
  report,         \* the last status report built
  sendResult,     \* value returned by the last sendStatusReport call
  uploadStats,    \* value returned by upload()
  uploadResult,   \* "none", "returned" or "threw": how upload() ended
  trace,          \* events of the running process, in order
  sleeps,         \* durations slept by the current uploadPayload call
  statuses,       \* statuses received by the current uploadPayload call
  puts,           \* payloads sent by the current uploadPayload call
  reports,        \* status reports sent by the running process
  statusResponse, \* sendStatusReport: status of the response it is handling
  putInvs,        \* job: processes that sent a request to the upload endpoint
  lookups,        \* job: number of workflow-metadata lookups
  sentinelWrites, \* job: number of writes of the sentinel
  builtReports,   \* job: (started_at, analysis_key) of every report built
  firstCall,      \* job: actionStartedAt of the first createStatusReportBase
                  \*      call (0: none yet)
  firstBuilt,     \* job: actionStartedAt of the first call that returned a
                  \*      report (0: none yet)
  ref,            \* process.env['GITHUB_REF'] of the running process
  input,          \* upload: what its path refers to, while upload examines it
  argument,       \* argument of a function of the library applied on its own
  returned,       \* value that function returned
  parsedConfigFile,   \* the file at getPathToParsedConfigFile()
  initConfigReturned  \* job: what the last initConfig that completed returned

vars == <<env, inv, pc, phase, startedAt, testMode, sarifFiles, fileIdx,
          analysisKey, payload, attempt, response, error, failed, report,
          sendResult, uploadStats, uploadResult, trace, sleeps, statuses,
          puts, reports, statusResponse, putInvs, lookups, sentinelWrites,
          builtReports, firstCall, firstBuilt, ref, input, argument,
          returned, parsedConfigFile, initConfigReturned>>

\* Variables grouped by owner, for UNCHANGED.
uploadLocals == <<sarifFiles, fileIdx, payload, attempt, response, sleeps,
                  statuses, puts>>
reportLocals == <<report, sendResult, reports, statusResponse>>
reportGhosts == <<builtReports, firstCall, firstBuilt>>
jobGhosts == <<putInvs, lookups, sentinelWrites, reportGhosts>>
pureLocals == <<argument, returned>>
configLocals == <<parsedConfigFile, initConfigReturned>>

\* ------------------------------------------------------- pure helpers
\* A JavaScript value used as a condition.
Truthy(v) == v # Undefined /\ v # ""

\* Date.prototype.toISOString of the instant t.
toISOString(t) == "T" \o ToString(t)

\* Mutant: the variable is not propagated to the store.
exportVariable_Lost(e, name, val) == e

\* core.exportVariable(name, val): sets the variable for this process and
\* for the later processes of the job.
exportVariable(e, name, val) == [e EXCEPT ![name] = val]

\* Mutant: the sentinel check reads a variable that is never set.
SentinelIsSet_WrongKey(e) == Truthy(Undefined)

\* uploadFiles: if (process.env[sentinelEnvVar])
SentinelIsSet(e) == Truthy(e[sentinelEnvVar])

\* Mutant: the key is looked up again whatever the store holds.
AnalysisKeyIsCached_Never(e) == FALSE

\* getAnalysisKey: if (analysisKey !== undefined) return analysisKey
AnalysisKeyIsCached(e) == e[CODEQL_ACTION_ANALYSIS_KEY] # Undefined

\* getAnalysisKey: analysisKey = workflowPath + ':' + jobName
MakeAnalysisKey(workflowPath, jobName) == workflowPath \o ":" \o jobName

\* Mutant: the start time is taken as absent whatever the store holds.
WorkflowStartedAtIsCached_Never(e) == FALSE

\* createStatusReportBase: if (workflowStartedAt === undefined)
WorkflowStartedAtIsCached(e) == e[CODEQL_WORKFLOW_STARTED_AT] # Undefined

\* statusCode < n and statusCode >= n: both are false of an undefined
\* status.
JsLess(statusCode, n) == statusCode # NoStatus /\ statusCode < n
JsGreaterEq(statusCode, n) == statusCode # NoStatus /\ statusCode >= n

\* Mutant: every 2xx status is taken as success.
IsAccepted_Any2xx(statusCode) == statusCode \in 200..299

\* uploadPayload: if (statusCode === 202)
IsAccepted(statusCode) == statusCode = Accepted

\* Mutant: the test for an absent status is left out.
NotRetryable_NoFalsyTest(statusCode) ==
  \/ JsLess(statusCode, ServerErrorMin)
  \/ JsGreaterEq(statusCode, ServerErrorLimit)

\* uploadPayload: if (!statusCode || statusCode < 500 || statusCode >= 600)
NotRetryable(statusCode) ==
  \/ statusCode = NoStatus
  \/ JsLess(statusCode, ServerErrorMin)
  \/ JsGreaterEq(statusCode, ServerErrorLimit)

\* uploadPayload: for (...; attempt <= backoffPeriods.length; ...)
LoopContinues(a) == a <= Len(backoffPeriods)

\* Mutant: the last attempt is also followed by a sleep.
MayRetry_OneMore(a) == a <= Len(backoffPeriods)

\* uploadPayload: if (attempt < backoffPeriods.length)
MayRetry(a) == a < Len(backoffPeriods)

\* Mutant: the backoff of the following attempt is used.
BackoffAt_OffByOne(a) ==
  IF a + 2 \in DOMAIN backoffPeriods THEN backoffPeriods[a + 2] ELSE 0

\* uploadPayload: backoffPeriods[attempt], attempt counted from 0.  An index
\* past the end reads undefined, and setTimeout then fires without delay.
BackoffAt(a) ==
  IF a + 1 \in DOMAIN backoffPeriods THEN backoffPeriods[a + 1] ELSE 0

\* new Error(message): message and stack are both set.
NewError(message) ==
  [thrown |-> TRUE, message |-> message, stack |-> "Error: " \o message,
   text |-> "Error: " \o message]

\* throw "text": the thrown value is a string, which has neither a message
\* nor a stack property.
ThrownString(text) ==
  [thrown |-> TRUE, message |-> Undefined, stack |-> Undefined, text |-> text]

\* Mutant: the message is built from the response of the previous attempt.
UploadFailedMessage_Stale(r) ==
  "Upload failed (" \o response.requestID \o "): (" \o
  (IF response.status = NoStatus THEN Undefined ELSE ToString(response.status))
  \o ") " \o "\"" \o response.data \o "\""

\* uploadPayload: the message of the error thrown for a failed upload.
UploadFailedMessage(r) ==
  "Upload failed (" \o r.requestID \o "): (" \o
  (IF r.status = NoStatus THEN Undefined ELSE ToString(r.status)) \o ") " \o
  "\"" \o r.data \o "\""

\* path.resolve(input, f) of the i-th .sarif file handed to uploadFiles.
SarifPath(i) == "/results/f" \o ToString(i) \o ".sarif"

RECURSIVE JoinLines(_)
\* Array.prototype.join("\n")
JoinLines(lines) ==
  IF lines = <<>> THEN ""
  ELSE IF Len(lines) = 1 THEN lines[1]
  ELSE lines[1] \o "\n" \o JoinLines(Tail(lines))

\* Mutant: only the first error of the file is put in the message.
SarifErrors_FirstOnly(errors) == <<"- " \o errors[1]>>

\* validateSarifFileSchema: result.errors.map(e => "- " + e.stack)
SarifErrors(errors) == [i \in DOMAIN errors |-> "- " \o errors[i]]

\* validateSarifFileSchema: the message of the error thrown for a file that
\* does not pass the schema.
InvalidSarifMessage(sarifFilePath, errors) ==
  "Unable to upload \"" \o sarifFilePath \o "\" as it is not valid SARIF:\n"
  \o JoinLines(SarifErrors(errors))

\* fs.readdirSync(input): the direct children of the directory, each with
\* its name and what it holds.
readdirSync(dir) ==
  [i \in DOMAIN dir.files |-> [name |-> SarifName(i), file |-> dir.files[i]]]
  \o dir.others

\* Mutant: every name is taken to end with the suffix.
endsWith_Any(name, suffix) == TRUE

\* String.prototype.endsWith, of a name held as stem and extension.
endsWith(name, suffix) == name.ext = suffix

\* upload: readdirSync(input).filter(f => f.endsWith(".sarif")), each
\* resolved against the directory and standing here for the file it names.
ListSarifFiles(dir) ==
  LET kept == SelectSeq(readdirSync(dir),
                        LAMBDA child : endsWith(child.name, ".sarif"))
  IN  [i \in DOMAIN kept |-> kept[i].file]

\* upload: the message of the error thrown for a directory without .sarif
\* files.
NoSarifFilesMessage ==
  "No SARIF files found to upload in \"" \o InputPath \o "\"."

\* JSON.stringify and JSON.parse of a document.
JSONstringify(doc) == <<"json", doc>>
JSONparse(text) == text[2]

\* combineSarifFiles: let combinedSarif = { version: null, runs: [] }
EmptySarif == [version |-> Null, runs |-> <<>>]

\* combineSarifFiles: the string thrown when two versions differ.
VersionMismatchMessage(a, b) ==
  "Different SARIF versions encountered: " \o a \o " and " \o b

\* Mutant: the runs of a file replace the runs collected so far.
PushRuns_Replace(runs, more) == more

\* combineSarifFiles: combinedSarif.runs.push(...sarifObject.runs)
PushRuns(runs, more) == runs \o more

RECURSIVE CombineFrom(_, _, _)
\* combineSarifFiles: the loop over the files, from file i on, with
\* combinedSarif as the files before i left it.  The version is taken from
\* a file while combinedSarif.version is null, and compared otherwise.
CombineFrom(files, i, combinedSarif) ==
  IF i > Len(files)
  THEN [threw |-> FALSE, value |-> combinedSarif]
  ELSE IF combinedSarif.version = Null
  THEN CombineFrom(files, i + 1,
                   [version |-> files[i].version,
                    runs |-> PushRuns(combinedSarif.runs, files[i].runs)])
  ELSE IF combinedSarif.version # files[i].version
  THEN [threw |-> TRUE,
        value |-> VersionMismatchMessage(combinedSarif.version,
                                         files[i].version)]
  ELSE CombineFrom(files, i + 1,
                   [combinedSarif EXCEPT
                      !.runs = PushRuns(combinedSarif.runs, files[i].runs)])

\* combineSarifFiles throws on these files.
VersionMismatch(files) == CombineFrom(files, 1, EmptySarif).threw

\* combineSarifFiles: the combined document, serialised.
combineSarifFiles(files) ==
  JSONstringify(CombineFrom(files, 1, EmptySarif).value)

\* fingerprints.addFingerprints: a pure transformation of the document that
\* keeps its version and runs; its output is marked as fingerprinted.
addFingerprints(text) ==
  LET doc == JSONparse(text)
  IN  JSONstringify([version |-> doc.version, runs |-> doc.runs,
                     fingerprinted |-> TRUE])

\* zlib.gzipSync(sarifPayload).toString('base64')
gzipBase64(text) == <<"gzip+base64", text>>

\* Mutant: numResults = run.results.length, the sum is not accumulated.
SumResults_LastRun(runs) ==
  IF runs = <<>> THEN 0 ELSE Len(runs[Len(runs)].results)

RECURSIVE SumResults(_)
\* countResultsInSarif: numResults += run.results.length over the runs.
SumResults(runs) ==
  IF runs = <<>> THEN 0
  ELSE SumResults(SubSeq(runs, 1, Len(runs) - 1)) + Len(runs[Len(runs)].results)

\* countResultsInSarif: sum of run.results.length over the runs.
countResultsInSarif(text) == SumResults(JSONparse(text).runs)

\* getToolNames: (run.tool || {}).driver || {}).name, Undefined when a
\* link is missing; a value is held with its JavaScript type.
DriverName(run) ==
  IF "tool" \notin DOMAIN run THEN [type |-> "undefined", value |-> Undefined]
  ELSE IF "driver" \notin DOMAIN run.tool
  THEN [type |-> "undefined", value |-> Undefined]
  ELSE IF "name" \notin DOMAIN run.tool.driver
  THEN [type |-> "undefined", value |-> Undefined]
  ELSE run.tool.driver.name

\* getToolNames: typeof driver.name === "string" && driver.name.length > 0
IsToolName(name) == name.type = "string" /\ Len(name.value) > 0

\* Object.keys lists the keys of an object that are array indices, the
\* canonical decimal strings of integers, before its other keys; the model
\* recognises the indices up to MaxArrayIndex.
IsArrayIndex(key) == \E n \in 0..MaxArrayIndex : ToString(n) = key

\* toolNames[name] = true on an object literal: the name becomes a new own
\* key after the keys already there; an existing key keeps its place; and
\* "__proto__" reaches the prototype setter, which ignores the value `true`
\* and adds no key.
SetKey(toolNames, name) ==
  IF name = "__proto__" \/ \E i \in DOMAIN toolNames : toolNames[i] = name
  THEN toolNames
  ELSE Append(toolNames, name)

RECURSIVE IndexKeysFrom(_, _)
\* The array-index keys among `keys`, ascending from index n.
IndexKeysFrom(keys, n) ==
  IF n > MaxArrayIndex THEN <<>>
  ELSE (IF \E i \in DOMAIN keys : keys[i] = ToString(n)
        THEN <<ToString(n)>> ELSE <<>>) \o IndexKeysFrom(keys, n + 1)

\* Object.keys(toolNames), `keys` being the own keys in insertion order:
\* array indices in ascending numeric order, then the other keys in
\* insertion order.
ObjectKeys(keys) ==
  IndexKeysFrom(keys, 0) \o SelectSeq(keys, LAMBDA k : ~IsArrayIndex(k))

RECURSIVE ToolNamesFrom(_, _)
\* getToolNames: the loop over the runs, toolNames holding the own keys of
\* the object in insertion order.
ToolNamesFrom(runs, toolNames) ==
  IF runs = <<>> THEN toolNames
  ELSE LET name == DriverName(Head(runs))
       IN  ToolNamesFrom(Tail(runs),
             IF IsToolName(name)
             THEN SetKey(toolNames, name.value)
             ELSE toolNames)

\* getToolNames: Object.keys(toolNames) over sarif.runs || [].
getToolNames(text) ==
  LET sarif == JSONparse(text)
  IN  ObjectKeys(ToolNamesFrom(IF "runs" \in DOMAIN sarif
                               THEN sarif.runs ELSE <<>>,
                               <<>>))

\* Mutant: the combined document is compressed and scanned as it was
\* before fingerprinting.
BuildPayload_Unfingerprinted(e, key, files) ==
  [analysis_key |-> key,
   sarif        |-> gzipBase64(combineSarifFiles(files)),
   started_at   |-> e[CODEQL_WORKFLOW_STARTED_AT],
   tool_names   |-> getToolNames(combineSarifFiles(files))]

\* uploadFiles: the payload object handed to uploadPayload.
BuildPayload(e, key, files) ==
  LET sarifPayload == addFingerprints(combineSarifFiles(files))
  IN  [analysis_key |-> key,
       sarif        |-> gzipBase64(sarifPayload),
       started_at   |-> e[CODEQL_WORKFLOW_STARTED_AT],
       tool_names   |-> getToolNames(sarifPayload)]

\* uploadFiles: the statistics returned to the caller.
BuildStats(files) ==
  [num_results_in_sarif |->
     countResultsInSarif(addFingerprints(combineSarifFiles(files)))]

\* ------------------------------------------------------------ initial state
Init ==
  /\ env = [k \in EnvKeys |-> Undefined]
  /\ inv = 0
  /\ pc = "idle"
  /\ phase = "none"
  /\ startedAt = 0
  /\ testMode = FALSE
  /\ sarifFiles = <<>>
  /\ fileIdx = 1
  /\ analysisKey = Undefined
  /\ payload = NoPayload
  /\ attempt = 0
  /\ response = NoResponse
  /\ error = NoError
  /\ failed = FALSE
  /\ report = NoReport
  /\ sendResult = TRUE
  /\ uploadStats = NoStats
  /\ uploadResult = "none"
  /\ trace = <<>>
  /\ sleeps = <<>>
  /\ statuses = <<>>
  /\ puts = <<>>
  /\ reports = <<>>
  /\ putInvs = {}
  /\ lookups = 0
  /\ sentinelWrites = 0
  /\ statusResponse = NoStatus
  /\ builtReports = {}
  /\ firstCall = 0
  /\ firstBuilt = 0
  /\ ref = Undefined
  /\ parsedConfigFile = NoFile
  /\ initConfigReturned = NoConfig
  /\ input = NoInput
  /\ argument = Undefined
  /\ returned = Undefined

\* ------------------------------------------------------ control transfer
\* An exception raised at the current position.  Inside the try block of
\* run() (upload and the success report) the catch block marks the action
\* failed and goes on to the failure report; elsewhere run() rejects and
\* the handler attached to run() marks the action failed.
Throw(e) ==
  /\ error' = e
  /\ failed' = TRUE
  /\ uploadResult' = IF phase = "upload" THEN "threw" ELSE uploadResult
  /\ IF phase \in {"upload", "success"}
     THEN phase' = "failure" /\ pc' = "get_key"
     ELSE phase' = phase /\ pc' = "idle"

\* upload() returns its statistics to run().
ReturnFromUpload ==
  /\ uploadResult' = "returned"
  /\ uploadStats' = BuildStats(sarifFiles)
  /\ phase' = "success"
  /\ pc' = "get_key"

\* ------------------------------------------------------------------ run()
\* A new process of the job starts run(): const startedAt = new Date().
RunStart ==
  /\ pc = "idle"
  /\ inv < MaxInvocations
  /\ testMode' = FALSE
  /\ inv' = inv + 1
  /\ startedAt' = inv + 1
  /\ pc' = "should_abort"
  /\ phase' = "starting"
  /\ sarifFiles' = <<>>
  /\ fileIdx' = 1
  /\ analysisKey' = Undefined
  /\ payload' = NoPayload
  /\ attempt' = 0
  /\ response' = NoResponse
  /\ error' = NoError
  /\ failed' = FALSE
  /\ report' = NoReport
  /\ sendResult' = TRUE
  /\ uploadStats' = NoStats
  /\ uploadResult' = "none"
  /\ trace' = <<>>
  /\ sleeps' = <<>>
  /\ statuses' = <<>>
  /\ puts' = <<>>
  /\ reports' = <<>>
  /\ statusResponse' = NoStatus
  /\ UNCHANGED <<env, jobGhosts>>
  /\ UNCHANGED <<input, pureLocals, configLocals>>
  /\ ref' \in Refs

\* Mutant: a missing GITHUB_REF is let through.
should_abort_RefIgnored(githubRef, requireInitActionHasRun, initCompleted) ==
  requireInitActionHasRun /\ initCompleted = Undefined

\* util.should_abort(actionName, requireInitActionHasRun), reading
\* GITHUB_REF and CODEQL_ACTION_INIT_COMPLETED from the environment: the
\* value returned; core.setFailed is called exactly when it is true.
should_abort(githubRef, requireInitActionHasRun, initCompleted) ==
  \/ githubRef = Undefined
  \/ requireInitActionHasRun /\ initCompleted = Undefined

\* run(): util.should_abort('upload-sarif', false); run() returns when it
\* answers true.
ShouldAbort ==
  /\ pc = "should_abort"
  /\ \E initCompleted \in InitCompleted :
       IF should_abort(ref, FALSE, initCompleted)
       THEN /\ pc' = "idle"
            /\ failed' = TRUE
       ELSE /\ pc' = "get_key"
            /\ UNCHANGED failed
  /\ trace' = Append(trace, "should_abort")
  /\ UNCHANGED <<env, inv, phase, startedAt, testMode, analysisKey, error,
                 uploadStats, uploadResult, uploadLocals, reportLocals,
                 jobGhosts>>
  /\ UNCHANGED <<ref, input, pureLocals, configLocals>>

\* ------------------------------------------------------- getAnalysisKey()
\* Position reached when getAnalysisKey returns to its caller.
AfterAnalysisKey == IF phase = "upload" THEN "uf_build" ELSE "csrb_build"

\* util.getRequiredEnvParam: the parameter is undefined or empty, and the
\* call throws.
RequiredParamMissing(value) == value = Undefined \/ Len(value) = 0

\* createStatusReportBase calls getRef, which requires GITHUB_REF, before
\* getAnalysisKey; uploadFiles has called it on its own before.
GetRefReturns == phase = "upload" \/ ~RequiredParamMissing(ref)

\* History: a call of createStatusReportBase is noted when its getRef and
\* getAnalysisKey run, the first things it does that can fail or change
\* the store (uploadFiles calls getAnalysisKey on its own).
NoteCall ==
  /\ firstCall' = IF phase # "upload" /\ firstCall = 0
                  THEN startedAt ELSE firstCall
  /\ UNCHANGED <<builtReports, firstBuilt>>

\* The key is cached in the store: it is returned as it is.
GetAnalysisKeyCached ==
  /\ pc = "get_key"
  /\ GetRefReturns
  /\ AnalysisKeyIsCached(env)
  /\ analysisKey' = env[CODEQL_ACTION_ANALYSIS_KEY]
  /\ pc' = AfterAnalysisKey
  /\ NoteCall
  /\ UNCHANGED <<env, inv, phase, startedAt, testMode, error, failed,
                 uploadStats, uploadResult, trace, uploadLocals, reportLocals,
                 putInvs, lookups, sentinelWrites>>
  /\ UNCHANGED <<ref, input, pureLocals, configLocals>>

\* The key is not cached: getWorkflowPath answers, the key is computed,
\* exported and returned.
GetAnalysisKeyLookup ==
  /\ pc = "get_key"
  /\ GetRefReturns
  /\ ~AnalysisKeyIsCached(env)
  /\ \E workflowPath \in WorkflowPaths :
       /\ analysisKey' = MakeAnalysisKey(workflowPath, JobName)
       /\ env' = exportVariable(env, CODEQL_ACTION_ANALYSIS_KEY,
                                MakeAnalysisKey(workflowPath, JobName))
  /\ lookups' = lookups + 1
  /\ trace' = Append(trace, "lookup")
  /\ pc' = AfterAnalysisKey
  /\ NoteCall
  /\ UNCHANGED <<inv, phase, startedAt, testMode, error, failed, uploadStats,
                 uploadResult, uploadLocals, reportLocals, putInvs,
                 sentinelWrites>>
  /\ UNCHANGED <<ref, input, pureLocals, configLocals>>

\* The key is not cached and getWorkflowPath fails (a request is rejected
\* or a required environment parameter is missing).
GetAnalysisKeyThrows ==
  /\ pc = "get_key"
  /\ GetRefReturns
  /\ ~AnalysisKeyIsCached(env)
  /\ lookups' = lookups + 1
  /\ trace' = Append(trace, "lookup")
  /\ Throw(NewError("workflow lookup failed"))
  /\ NoteCall
  /\ UNCHANGED <<env, inv, startedAt, testMode, analysisKey, uploadStats,
                 uploadLocals, reportLocals, putInvs, sentinelWrites>>
  /\ UNCHANGED <<ref, input, pureLocals, configLocals>>

\* createStatusReportBase: GITHUB_REF is empty and getRef throws.
GetRefThrows ==
  /\ pc = "get_key"
  /\ ~GetRefReturns
  /\ trace' = Append(trace, "get_ref_failed")
  /\ Throw(NewError("GITHUB_REF environment variable must be set"))
  /\ NoteCall
  /\ UNCHANGED <<env, inv, startedAt, testMode, analysisKey, uploadStats,
                 uploadLocals, reportLocals, putInvs, lookups,
                 sentinelWrites>>
  /\ UNCHANGED <<ref, input, pureLocals, configLocals>>

\* ----------------------------------------------- createStatusReportBase()
\* Mutant: completed_at is left out of an aborted report.
IsTerminalStatus_NoAborted(status) == status \in {"success", "failure"}

\* Statuses for which createStatusReportBase sets completed_at.
IsTerminalStatus(status) == status \in {"success", "failure", "aborted"}

\* The workflow start time this report carries: the cached one, else the
\* start time of the action building the report.
WorkflowStartedAt(e, actionStartedAt) ==
  IF WorkflowStartedAtIsCached(e)
  THEN e[CODEQL_WORKFLOW_STARTED_AT]
  ELSE toISOString(actionStartedAt)

\* The store after createStatusReportBase resolved the workflow start time.
StoreWorkflowStartedAt(e, actionStartedAt) ==
  IF WorkflowStartedAtIsCached(e)
  THEN e
  ELSE exportVariable(e, CODEQL_WORKFLOW_STARTED_AT,
                      toISOString(actionStartedAt))

\* Mutant: the optional argument is attached whenever it is not undefined.
OptionalField_EmptyKept(arg) == arg

\* if (cause) statusReport.cause = cause, and the same for exception: the
\* field is attached when the argument is truthy, else it stays absent.
OptionalField(arg) == IF Truthy(arg) THEN arg ELSE Undefined

\* The report object, absent optional fields reading Undefined.
StatusReport(e, key, status, actionStartedAt, cause, exception, now) ==
  [analysis_key      |-> key,
   action_name       |-> "upload-sarif",
   started_at        |-> WorkflowStartedAt(e, actionStartedAt),
   action_started_at |-> toISOString(actionStartedAt),
   status            |-> status,
   cause             |-> OptionalField(cause),
   exception         |-> OptionalField(exception),
   completed_at      |-> IF IsTerminalStatus(status)
                         THEN toISOString(now) ELSE Undefined,
   stats             |-> NoStats]

\* History: a report has been built by a call made with actionStartedAt.
NoteBuilt(started_at, key, actionStartedAt) ==
  /\ builtReports' = builtReports \cup {<<started_at, key>>}
  /\ firstBuilt' = IF firstBuilt = 0 THEN actionStartedAt ELSE firstBuilt
  /\ UNCHANGED firstCall

\* The rest of createStatusReportBase, once getAnalysisKey has returned.
\* run() passes error.message and error.stack for the failure report only;
\* sendSuccessStatusReport adds the upload statistics to the success report.
CreateStatusReportBase ==
  /\ pc = "csrb_build"
  /\ env' = StoreWorkflowStartedAt(env, startedAt)
  /\ report' =
       [StatusReport(env, analysisKey, phase, startedAt,
                     IF phase = "failure" THEN error.message ELSE Undefined,
                     IF phase = "failure" THEN error.stack ELSE Undefined,
                     inv)
          EXCEPT !.stats = IF phase = "success" THEN uploadStats ELSE NoStats]
  /\ NoteBuilt(WorkflowStartedAt(env, startedAt), analysisKey, startedAt)
  /\ trace' = Append(trace, "report_built")
  /\ pc' = "send"
  /\ UNCHANGED <<inv, phase, startedAt, testMode, analysisKey, error, failed,
                 uploadStats, uploadResult, uploadLocals, sendResult, reports,
                 statusResponse, putInvs, lookups, sentinelWrites>>
  /\ UNCHANGED <<ref, input, pureLocals, configLocals>>

\* ------------------------------------------------------ sendStatusReport()
\* run() passes ignoreFailures = true for the starting report and omits the
\* argument for the success and failure reports.
IgnoreFailures == phase = "starting"

\* Mutant: the 403 / 404 test is made whatever ignoreFailures says.
Rejected_AlwaysStrict(ignoreFailures, status) == status \in {403, 404}

\* sendStatusReport: the 403 / 404 answers that make it return false.
Rejected(ignoreFailures, status) ==
  /\ ~ignoreFailures
  /\ status \in {403, 404}

\* Where run() goes once sendStatusReport has returned `sent`.
AfterSend(sent) ==
  IF phase = "starting" /\ sent THEN "upload" ELSE "idle"

\* The report is PUT to the status endpoint, which answers with a status.
SendStatusReport ==
  /\ pc = "send"
  /\ \E status \in ReportStatuses : statusResponse' = status
  /\ reports' = Append(reports, report)
  /\ trace' = Append(trace, "status_put")
  /\ pc' = "sent"
  /\ UNCHANGED <<env, inv, phase, startedAt, testMode, analysisKey, error,
                 failed, uploadStats, uploadResult, uploadLocals, report,
                 sendResult, jobGhosts>>
  /\ UNCHANGED <<ref, input, pureLocals, configLocals>>

\* sendStatusReport examines the response: under strict checking a 403 or
\* 404 marks the action failed and returns false, anything else returns
\* true.  run() then goes on according to the value returned.
SendStatusReportReturn ==
  /\ pc = "sent"
  /\ sendResult' = ~Rejected(IgnoreFailures, statusResponse)
  /\ failed' = (failed \/ Rejected(IgnoreFailures, statusResponse))
  /\ pc' = AfterSend(~Rejected(IgnoreFailures, statusResponse))
  /\ phase' = IF AfterSend(~Rejected(IgnoreFailures, statusResponse)) = "upload"
              THEN "upload" ELSE phase
  /\ statusResponse' = NoStatus
  /\ UNCHANGED <<env, inv, startedAt, testMode, analysisKey, error,
                 uploadStats, uploadResult, uploadLocals, report, reports,
                 trace, jobGhosts>>
  /\ UNCHANGED <<ref, input, pureLocals, configLocals>>

\* sendStatusReport throws: GITHUB_REPOSITORY is missing (nothing has been
\* sent), or the PUT has been issued and the request is rejected.
SendStatusReportThrows ==
  /\ pc = "send"
  /\ \E issued \in BOOLEAN :
       reports' = IF issued THEN Append(reports, report) ELSE reports
  /\ trace' = Append(trace, "status_put_failed")
  /\ Throw(NewError("status report request failed"))
  /\ UNCHANGED <<env, inv, startedAt, testMode, analysisKey, uploadStats,
                 uploadLocals, report, sendResult, statusResponse, jobGhosts>>
  /\ UNCHANGED <<ref, input, pureLocals, configLocals>>

\* --------------------------------------------------------------- upload()
\* upload(input) starts with fs.lstatSync(input), which throws when the
\* path refers to nothing; otherwise upload goes on with what it found.
UploadStat ==
  /\ pc = "upload"
  /\ \E i \in Inputs :
       IF i.kind = "missing"
       THEN /\ Throw(NewError("ENOENT: no such file or directory"))
            /\ UNCHANGED input
       ELSE /\ input' = i
            /\ pc' = "upload_list"
            /\ UNCHANGED <<phase, error, failed, uploadResult>>
  /\ UNCHANGED <<env, inv, startedAt, testMode, analysisKey, uploadStats,
                 trace, uploadLocals, reportLocals, jobGhosts>>
  /\ UNCHANGED <<ref, pureLocals, configLocals>>

\* The rest of upload: a directory gives its .sarif files (none is an
\* error), a file gives itself.  uploadFiles then starts with its sentinel
\* check.
Upload ==
  /\ pc = "upload_list"
  /\ IF input.kind = "dir" /\ Len(ListSarifFiles(input)) = 0
     THEN /\ Throw(NewError(NoSarifFilesMessage))
          /\ UNCHANGED sarifFiles
     ELSE /\ sarifFiles' = IF input.kind = "dir" THEN ListSarifFiles(input)
                           ELSE input.files
          /\ pc' = "uf_sentinel"
          /\ UNCHANGED <<phase, error, failed, uploadResult>>
  /\ input' = NoInput
  /\ UNCHANGED <<env, inv, startedAt, testMode, analysisKey, uploadStats,
                 fileIdx, payload, attempt, response, sleeps, statuses, puts,
                 trace, reportLocals, jobGhosts>>
  /\ UNCHANGED <<ref, pureLocals, configLocals>>

\* ---------------------------------------------------------- uploadFiles()
DuplicateUploadMessage ==
  "Aborting upload: only one run of the codeql/analyze or codeql/upload-sarif actions is allowed per job"

\* The sentinel is set: uploadFiles throws.
UploadFilesDuplicate ==
  /\ pc = "uf_sentinel"
  /\ SentinelIsSet(env)
  /\ trace' = Append(trace, "duplicate")
  /\ Throw(NewError(DuplicateUploadMessage))
  /\ UNCHANGED <<env, inv, startedAt, testMode, analysisKey, uploadStats,
                 uploadLocals, reportLocals, jobGhosts>>
  /\ UNCHANGED <<ref, input, pureLocals, configLocals>>

\* Mutant: the sentinel is exported after the files have been validated,
\* which this step leaves to a later one that does not exist.
UploadFilesSetSentinel_Late ==
  /\ pc = "uf_sentinel"
  /\ ~SentinelIsSet(env)
  /\ fileIdx' = 1
  /\ pc' = "uf_validate"
  /\ UNCHANGED <<env, inv, phase, startedAt, testMode, analysisKey, error,
                 failed, uploadStats, uploadResult, sarifFiles, payload,
                 attempt, response, sleeps, statuses, puts, trace,
                 reportLocals, jobGhosts>>
  /\ UNCHANGED <<ref, input, pureLocals, configLocals>>

\* The sentinel is not set: uploadFiles exports it and goes on.
UploadFilesSetSentinel ==
  /\ pc = "uf_sentinel"
  /\ ~SentinelIsSet(env)
  /\ env' = exportVariable(env, sentinelEnvVar, sentinelEnvVar)
  /\ sentinelWrites' = sentinelWrites + 1
  /\ trace' = Append(trace, "sentinel_set")
  /\ fileIdx' = 1
  /\ pc' = "uf_validate"
  /\ UNCHANGED <<inv, phase, startedAt, testMode, analysisKey, error, failed,
                 uploadStats, uploadResult, sarifFiles, payload, attempt,
                 response, sleeps, statuses, puts, reportLocals, putInvs,
                 lookups, reportGhosts>>
  /\ UNCHANGED <<ref, input, pureLocals, configLocals>>

\* Mutant: a file that does not pass the schema is let through.
ValidateSarifFileSchema_Lenient ==
  /\ pc = "uf_validate"
  /\ fileIdx <= Len(sarifFiles)
  /\ trace' = Append(trace, "validate")
  /\ fileIdx' = fileIdx + 1
  /\ pc' = IF fileIdx = Len(sarifFiles) THEN "uf_env" ELSE "uf_validate"
  /\ UNCHANGED <<env, inv, phase, startedAt, testMode, analysisKey, error,
                 failed, uploadStats, uploadResult, sarifFiles, payload,
                 attempt, response, sleeps, statuses, puts, reportLocals,
                 jobGhosts>>
  /\ UNCHANGED <<ref, input, pureLocals, configLocals>>

\* Mutant: only the first file is validated.
ValidateSarifFileSchema_FirstOnly ==
  /\ pc = "uf_validate"
  /\ fileIdx <= Len(sarifFiles)
  /\ trace' = Append(trace, "validate")
  /\ IF sarifFiles[fileIdx].valid
     THEN /\ fileIdx' = fileIdx + 1
          /\ pc' = "uf_env"
          /\ UNCHANGED <<phase, error, failed, uploadResult>>
     ELSE /\ Throw(NewError(InvalidSarifMessage(SarifPath(fileIdx),
                                                sarifFiles[fileIdx].errors)))
          /\ UNCHANGED fileIdx
  /\ UNCHANGED <<env, inv, startedAt, testMode, analysisKey, uploadStats,
                 sarifFiles, payload, attempt, response, sleeps, statuses,
                 puts, reportLocals, jobGhosts>>
  /\ UNCHANGED <<ref, input, pureLocals, configLocals>>

\* One iteration of the loop over the files: validateSarifFileSchema(file)
\* throws on a file that does not pass the schema.  After the last file
\* uploadFiles reads the commit and GITHUB_RUN_ID, which must be set.
ValidateSarifFileSchema ==
  /\ pc = "uf_validate"
  /\ fileIdx <= Len(sarifFiles)
  /\ trace' = Append(trace, "validate")
  /\ IF sarifFiles[fileIdx].valid
     THEN /\ fileIdx' = fileIdx + 1
          /\ pc' = IF fileIdx = Len(sarifFiles) THEN "uf_env" ELSE "uf_validate"
          /\ UNCHANGED <<phase, error, failed, uploadResult>>
     ELSE /\ Throw(NewError(InvalidSarifMessage(SarifPath(fileIdx),
                                                sarifFiles[fileIdx].errors)))
          /\ UNCHANGED fileIdx
  /\ UNCHANGED <<env, inv, startedAt, testMode, analysisKey, uploadStats,
                 sarifFiles, payload, attempt, response, sleeps, statuses,
                 puts, reportLocals, jobGhosts>>
  /\ UNCHANGED <<ref, input, pureLocals, configLocals>>

\* getCommitOid, getRequiredEnvParam('GITHUB_RUN_ID') and getRef: a missing
\* parameter throws, otherwise uploadFiles calls getAnalysisKey.
UploadFilesEnv ==
  /\ pc = "uf_env"
  /\ \E runIdIsSet \in BOOLEAN :
       IF runIdIsSet
       THEN /\ pc' = "get_key"
            /\ UNCHANGED <<phase, error, failed, uploadResult>>
       ELSE Throw(NewError("GITHUB_RUN_ID environment variable must be set"))
  /\ UNCHANGED <<env, inv, startedAt, testMode, analysisKey, uploadStats,
                 trace, uploadLocals, reportLocals, jobGhosts>>
  /\ UNCHANGED <<ref, input, pureLocals, configLocals>>

\* After getAnalysisKey: the files are combined (a version mismatch throws
\* a string), fingerprinted, compressed, and the payload is built.
UploadFilesBuild ==
  /\ pc = "uf_build"
  /\ IF VersionMismatch(sarifFiles)
     THEN /\ Throw(ThrownString(CombineFrom(sarifFiles, 1, EmptySarif).value))
          /\ trace' = Append(trace, "merge_failed")
          /\ UNCHANGED payload
     ELSE /\ payload' = BuildPayload(env, analysisKey, sarifFiles)
          /\ trace' = trace \o <<"merge", "fingerprint">>
          /\ pc' = "up_start"
          /\ UNCHANGED <<phase, error, failed, uploadResult>>
  /\ UNCHANGED <<env, inv, startedAt, testMode, analysisKey, uploadStats,
                 sarifFiles, fileIdx, attempt, response, sleeps, statuses,
                 puts, reportLocals, jobGhosts>>
  /\ UNCHANGED <<ref, input, pureLocals, configLocals>>

\* -------------------------------------------------------- uploadPayload()
\* Mutant: test mode is read but the request loop is entered all the same.
UploadPayloadStart_NoShortCircuit ==
  /\ pc = "up_start"
  /\ \E tm \in BOOLEAN : testMode' = tm
  /\ attempt' = 0
  /\ pc' = "up_request"
  /\ UNCHANGED <<env, inv, phase, startedAt, analysisKey, error, failed,
                 uploadStats, uploadResult, sarifFiles, fileIdx, payload,
                 response, sleeps, statuses, puts, trace, reportLocals,
                 jobGhosts>>
  /\ UNCHANGED <<ref, input, pureLocals, configLocals>>

\* uploadPayload reads TEST_MODE from the environment of the process: in
\* test mode it returns at once; otherwise the loop starts with attempt 0.
UploadPayloadStart ==
  /\ pc = "up_start"
  /\ \E tm \in BOOLEAN :
       /\ testMode' = tm
       /\ IF tm
          THEN /\ ReturnFromUpload
               /\ UNCHANGED attempt
          ELSE /\ attempt' = 0
               /\ pc' = "up_request"
               /\ UNCHANGED <<phase, uploadStats, uploadResult>>
  /\ UNCHANGED <<env, inv, startedAt, analysisKey, error, failed,
                 sarifFiles, fileIdx, payload, response, sleeps, statuses,
                 puts, trace, reportLocals, jobGhosts>>
  /\ UNCHANGED <<ref, input, pureLocals, configLocals>>

\* Mutant: the request body is rebuilt for each attempt and carries the
\* number of the attempt.
RequestData_Rebuilt(p, a) == [p EXCEPT !.sarif = <<"attempt", a, p.sarif>>]

\* uploadPayload: `data: payload` of the request of attempt a.
RequestData(p, a) == p

\* Head of the loop: while attempts remain the PUT is sent; the statement
\* after the loop throws.
SendRequest ==
  /\ pc = "up_request"
  /\ IF LoopContinues(attempt)
     THEN /\ puts' = Append(puts, RequestData(payload, attempt))
          /\ putInvs' = putInvs \cup {inv}
          /\ trace' = Append(trace, "put")
          /\ pc' = "up_response"
          /\ UNCHANGED <<phase, error, failed, uploadResult>>
     ELSE /\ Throw(NewError("Upload failed"))
          /\ UNCHANGED <<puts, putInvs, trace>>
  /\ UNCHANGED <<env, inv, startedAt, testMode, analysisKey, uploadStats,
                 sarifFiles, fileIdx, payload, attempt, response, sleeps,
                 statuses, reportLocals, lookups, sentinelWrites,
                 reportGhosts>>
  /\ UNCHANGED <<ref, input, pureLocals, configLocals>>

\* The endpoint answers: 202 returns, a status outside 5xx throws, a 5xx
\* goes to the sleep while attempts remain and throws on the last attempt.
ReceiveResponse ==
  /\ pc = "up_response"
  /\ \E r \in UploadResponses :
       /\ response' = r
       /\ statuses' = Append(statuses, r.status)
       /\ IF IsAccepted(r.status)
          THEN /\ ReturnFromUpload
               /\ UNCHANGED <<error, failed>>
          ELSE IF NotRetryable(r.status)
          THEN /\ Throw(NewError(UploadFailedMessage(r)))
               /\ UNCHANGED uploadStats
          ELSE IF MayRetry(attempt)
          THEN /\ pc' = "up_sleep"
               /\ UNCHANGED <<phase, error, failed, uploadStats, uploadResult>>
          ELSE /\ Throw(NewError(UploadFailedMessage(r)))
               /\ UNCHANGED uploadStats
  /\ trace' = Append(trace, "response")
  /\ UNCHANGED <<env, inv, startedAt, testMode, analysisKey, sarifFiles,
                 fileIdx, payload, attempt, sleeps, puts, reportLocals,
                 jobGhosts>>
  /\ UNCHANGED <<ref, input, pureLocals, configLocals>>

\* The request is rejected without a response: the rejection propagates.
RequestThrows ==
  /\ pc = "up_response"
  /\ trace' = Append(trace, "request_failed")
  /\ Throw(NewError("request to the upload endpoint failed"))
  /\ UNCHANGED <<env, inv, startedAt, testMode, analysisKey, uploadStats,
                 uploadLocals, reportLocals, jobGhosts>>
  /\ UNCHANGED <<ref, input, pureLocals, configLocals>>

\* The sleep of backoffPeriods[attempt] seconds, then the next iteration.
Sleep ==
  /\ pc = "up_sleep"
  /\ sleeps' = Append(sleeps, BackoffAt(attempt))
  /\ trace' = Append(trace, "sleep")
  /\ attempt' = attempt + 1
  /\ pc' = "up_request"
  /\ UNCHANGED <<env, inv, phase, startedAt, testMode, analysisKey, error,
                 failed, uploadStats, uploadResult, sarifFiles, fileIdx,
                 payload, response, statuses, puts, reportLocals, jobGhosts>>
  /\ UNCHANGED <<ref, input, pureLocals, configLocals>>

\* ------------------------------------------------------------ specification
Next ==
  \/ RunStart
  \/ ShouldAbort
  \/ GetAnalysisKeyCached
  \/ GetAnalysisKeyLookup
  \/ GetAnalysisKeyThrows
  \/ GetRefThrows
  \/ CreateStatusReportBase
  \/ SendStatusReport
  \/ SendStatusReportReturn
  \/ SendStatusReportThrows
  \/ UploadStat
  \/ Upload
  \/ UploadFilesDuplicate
  \/ UploadFilesSetSentinel
  \/ ValidateSarifFileSchema
  \/ UploadFilesEnv
  \/ UploadFilesBuild
  \/ UploadPayloadStart
  \/ SendRequest
  \/ ReceiveResponse
  \/ RequestThrows
  \/ Sleep

Spec == Init /\ [][Next]_vars

\* ------------- the first process of a job, every upload request answered
\* The first process of the job starts run().
RunFirst == inv = 0 /\ RunStart

\* The steps of the first process of a job in which no request to the
\* upload endpoint is rejected; the sentinel is not set when its uploadFiles
\* starts, so that uploadFiles goes on to export it.
NextAnswered ==
  \/ RunFirst
  \/ ShouldAbort
  \/ GetAnalysisKeyCached
  \/ GetAnalysisKeyLookup
  \/ GetAnalysisKeyThrows
  \/ GetRefThrows
  \/ CreateStatusReportBase
  \/ SendStatusReport
  \/ SendStatusReportReturn
  \/ SendStatusReportThrows
  \/ UploadStat
  \/ Upload
  \/ UploadFilesSetSentinel
  \/ ValidateSarifFileSchema
  \/ UploadFilesEnv
  \/ UploadFilesBuild
  \/ UploadPayloadStart
  \/ SendRequest
  \/ ReceiveResponse
  \/ Sleep

\* uploadPayload is an async function: once it is called it runs to its
\* first await, the continuation after `await request(...)` runs when the
\* response arrives, and the one after the awaited timer runs when the
\* timer fires.
UploadPayloadRuns ==
  /\ WF_vars(UploadPayloadStart)
  /\ WF_vars(SendRequest)
  /\ WF_vars(ReceiveResponse)
  /\ WF_vars(Sleep)

SpecAnswered == Init /\ [][NextAnswered]_vars /\ UploadPayloadRuns

\* ------------------------------------- createStatusReportBase on its own
\* The statuses createStatusReportBase is documented to take or tests for.
ActionStatuses == {"starting", "success", "failure", "aborted"}

\* An optional string argument: omitted, empty, or a text.
OptionalArgs == {Undefined, "", "text"}

\* What the store may hold of a cached variable when the call starts.
CachedOrAbsent(value) == {Undefined, value}

\* A call createStatusReportBase('upload-sarif', status, actionStartedAt,
\* cause, exception) about to start in a process of the job: phase holds
\* the status argument, error.message the cause argument and error.stack
\* the exception argument.
InitReport ==
  /\ \E key \in CachedOrAbsent(MakeAnalysisKey(".github/workflows/a.yml", JobName)),
        at \in CachedOrAbsent(toISOString(1)) :
       env = [k \in EnvKeys |->
                IF k = CODEQL_ACTION_ANALYSIS_KEY THEN key
                ELSE IF k = CODEQL_WORKFLOW_STARTED_AT THEN at
                ELSE Undefined]
  /\ inv \in 1..MaxInvocations
  /\ startedAt = inv
  /\ pc = "get_key"
  /\ phase \in ActionStatuses
  /\ \E cause \in OptionalArgs, exception \in OptionalArgs :
       error = [thrown |-> FALSE, message |-> cause, stack |-> exception]
  /\ testMode = FALSE
  /\ sarifFiles = <<>>
  /\ fileIdx = 1
  /\ analysisKey = Undefined
  /\ payload = NoPayload
  /\ attempt = 0
  /\ response = NoResponse
  /\ failed = FALSE
  /\ report = NoReport
  /\ sendResult = TRUE
  /\ uploadStats = NoStats
  /\ uploadResult = "none"
  /\ trace = <<>>
  /\ sleeps = <<>>
  /\ statuses = <<>>
  /\ puts = <<>>
  /\ reports = <<>>
  /\ putInvs = {}
  /\ lookups = 0
  /\ sentinelWrites = 0
  /\ statusResponse = NoStatus
  /\ builtReports = {}
  /\ firstCall = 0
  /\ firstBuilt = 0
  /\ ref = "refs/heads/main"
  /\ parsedConfigFile = NoFile
  /\ initConfigReturned = NoConfig
  /\ input = NoInput
  /\ argument = Undefined
  /\ returned = Undefined

\* The rest of createStatusReportBase, once getAnalysisKey has returned,
\* for the arguments of the call whatever they are.
CreateStatusReportBaseAny ==
  /\ pc = "csrb_build"
  /\ env' = StoreWorkflowStartedAt(env, startedAt)
  /\ report' = StatusReport(env, analysisKey, phase, startedAt,
                            error.message, error.stack, inv)
  /\ NoteBuilt(WorkflowStartedAt(env, startedAt), analysisKey, startedAt)
  /\ trace' = Append(trace, "report_built")
  /\ pc' = "send"
  /\ UNCHANGED <<inv, phase, startedAt, testMode, analysisKey, error, failed,
                 uploadStats, uploadResult, uploadLocals, sendResult, reports,
                 statusResponse, putInvs, lookups, sentinelWrites>>
  /\ UNCHANGED <<ref, input, pureLocals, configLocals>>

NextReport ==
  \/ GetAnalysisKeyCached
  \/ GetAnalysisKeyLookup
  \/ CreateStatusReportBaseAny

SpecReport == InitReport /\ [][NextReport]_vars

\* ------------------------- combineSarifFiles and countResultsInSarif alone
\* n results of a run.
Results(n) == [i \in 1..n |-> "alert-" \o ToString(i)]
\* Runs of two tools, with three and five results, and a run without
\* results.
RunA == [tool |-> [driver |-> [name |-> [type |-> "string", value |-> "CodeQL"]]],
         results |-> Results(3)]
RunB == [tool |-> [driver |-> [name |-> [type |-> "string", value |-> "ESLint"]]],
         results |-> Results(5)]
RunC == [tool |-> [driver |-> [name |-> [type |-> "string", value |-> "CodeQL"]]],
         results |-> <<>>]
\* The runs a file read by combineSarifFiles may hold: none, one, two
\* different ones, the same one twice.
FileRuns == {<<>>, <<RunA>>, <<RunB>>, <<RunC>>, <<RunB, RunA>>, <<RunA, RunA>>}
\* sarifObject.version of a file: null, missing, or a version.
FileVersions == {Null, Undefined} \cup Versions
\* JSON.parse of a file read by combineSarifFiles.
SarifObject == [version : FileVersions, runs : FileRuns]
\* The lists of files combineSarifFiles is applied to.
SarifObjectLists == UNION {[1..k -> SarifObject] : k \in 0..MaxFiles}
\* The documents countResultsInSarif is applied to.
SarifTexts ==
  {JSONstringify([version |-> "2.1.0", runs |-> a \o b]) :
     a \in FileRuns, b \in FileRuns}

\* A run whose tool.driver.name is `name`, held with its JavaScript type.
NamedRun(type, value) ==
  [tool |-> [driver |-> [name |-> [type |-> type, value |-> value]]]]
\* The runs of a document given to getToolNames: named by a string (two
\* words, two array indices, "__proto__", the empty string), named by a
\* number, and with no tool, no driver or no name.
ToolRuns ==
  {NamedRun("string", v) : v \in {"ESLint", "CodeQL", "10", "2",
                                  "__proto__", ""}}
  \cup {NamedRun("number", "7"),
        [results |-> <<>>],
        [tool |-> [fullName |-> "tool"]],
        [tool |-> [driver |-> [version |-> "1.0"]]]}
\* The documents getToolNames is applied to, one of them without `runs`.
ToolTexts ==
  {JSONstringify([version |-> "2.1.0", runs |-> r]) :
     r \in UNION {[1..k -> ToolRuns] : k \in 0..MaxRuns}}
  \cup {JSONstringify([version |-> "2.1.0"])}

\* A call of combineSarifFiles, of countResultsInSarif or of getToolNames
\* about to start.
InitSarif ==
  /\ \/ pc = "combineSarifFiles" /\ argument \in SarifObjectLists
     \/ pc = "countResultsInSarif" /\ argument \in SarifTexts
     \/ pc = "getToolNames" /\ argument \in ToolTexts
  /\ env = [k \in EnvKeys |-> Undefined]
  /\ inv = 0
  /\ phase = "none"
  /\ startedAt = 0
  /\ testMode = FALSE
  /\ sarifFiles = <<>>
  /\ fileIdx = 1
  /\ analysisKey = Undefined
  /\ payload = NoPayload
  /\ attempt = 0
  /\ response = NoResponse
  /\ error = NoError
  /\ failed = FALSE
  /\ report = NoReport
  /\ sendResult = TRUE
  /\ uploadStats = NoStats
  /\ uploadResult = "none"
  /\ trace = <<>>
  /\ sleeps = <<>>
  /\ statuses = <<>>
  /\ puts = <<>>
  /\ reports = <<>>
  /\ putInvs = {}
  /\ lookups = 0
  /\ sentinelWrites = 0
  /\ statusResponse = NoStatus
  /\ builtReports = {}
  /\ firstCall = 0
  /\ firstBuilt = 0
  /\ ref = Undefined
  /\ parsedConfigFile = NoFile
  /\ initConfigReturned = NoConfig
  /\ input = NoInput
  /\ returned = Undefined

\* combineSarifFiles(argument) returns the combined document or throws.
CombineSarifFiles ==
  /\ pc = "combineSarifFiles"
  /\ IF VersionMismatch(argument)
     THEN /\ error' = ThrownString(CombineFrom(argument, 1, EmptySarif).value)
          /\ pc' = "combine_threw"
          /\ UNCHANGED returned
     ELSE /\ returned' = combineSarifFiles(argument)
          /\ pc' = "combined"
          /\ UNCHANGED error
  /\ UNCHANGED <<env, inv, phase, startedAt, testMode, analysisKey, failed,
                 uploadStats, uploadResult, trace, uploadLocals, reportLocals,
                 jobGhosts, ref, input,
                 argument, configLocals>>

\* countResultsInSarif(argument) returns the number of results.
CountResultsInSarif ==
  /\ pc = "countResultsInSarif"
  /\ returned' = countResultsInSarif(argument)
  /\ pc' = "counted"
  /\ UNCHANGED <<env, inv, phase, startedAt, testMode, analysisKey, error,
                 failed, uploadStats, uploadResult, trace, uploadLocals,
                 reportLocals, jobGhosts, ref, input,
                 argument, configLocals>>

\* getToolNames(argument) returns the keys of toolNames.
GetToolNames ==
  /\ pc = "getToolNames"
  /\ returned' = getToolNames(argument)
  /\ pc' = "tool_names"
  /\ UNCHANGED <<env, inv, phase, startedAt, testMode, analysisKey, error,
                 failed, uploadStats, uploadResult, trace, uploadLocals,
                 reportLocals, jobGhosts, ref, input,
                 argument, configLocals>>

NextSarif ==
  \/ CombineSarifFiles
  \/ CountResultsInSarif
  \/ GetToolNames

SpecSarif == InitSarif /\ [][NextSarif]_vars

\* ------------------------------------------------ initConfig and getConfig
\* A value of the user's config file as yaml.safeLoad returns it, with its
\* JavaScript type: a string, a number, the number NaN (.nan), a Date (a
\* YAML timestamp).
YamlString(text) == [type |-> "string", value |-> text]
YamlNumber == [type |-> "number", value |-> "3"]
YamlNaN == [type |-> "number", value |-> "NaN"]
YamlTimestamp == [type |-> "date", value |-> "2020-06-01T00:00:00.000Z"]

\* The parsed config files of the user: a name; an empty name; a name and a
\* property loadConfig does not look at, holding a number, NaN or a date.
UserConfigs ==
  {[name |-> YamlString("security")],
   [name |-> YamlString("")],
   [name |-> YamlString("security"), threshold |-> YamlNumber],
   [name |-> YamlString("security"), threshold |-> YamlNaN],
   [name |-> YamlString("security"), since |-> YamlTimestamp]}

\* The config-file input of the init action, resolved in the workspace, and
\* what the file parses to; the input is '' when no file is given.
ConfigFilePath == "/workspace/codeql-config.yml"
ConfigFileInputs ==
  {[configFile |-> "", parsedYAML |-> [name |-> YamlString("")]]}
  \cup {[configFile |-> ConfigFilePath, parsedYAML |-> u] : u \in UserConfigs}

\* What getLanguages answers, and RUNNER_TEMP of a process.
LanguageLists == {<<>>, <<"javascript">>}
RunnerTemps == {Undefined, "/runner/temp"}

\* originalUserInput of the default config: {}.
EmptyObject == [k \in {} |-> Undefined]

\* addDefaultQueries: the query files resolved for the default suite of
\* each language.
DefaultQueries(languages) ==
  [l \in {languages[i] : i \in DOMAIN languages} |->
     <<"/codeql/" \o l \o "-code-scanning.qls">>]

\* getDefaultConfig and loadConfig, for a file with neither queries nor
\* paths: the config they return.
MakeConfig(languages, userInput) ==
  [languages         |-> languages,
   queries           |-> DefaultQueries(languages),
   pathsIgnore       |-> <<>>,
   paths             |-> <<>>,
   originalUserInput |-> userInput]

\* loadConfig: the name property is present and is not a non-empty string.
NameIsInvalid(parsedYAML) ==
  /\ "name" \in DOMAIN parsedYAML
  /\ \/ parsedYAML.name.type # "string"
     \/ Len(parsedYAML.name.value) = 0

\* getNameInvalid(configFile).
NameInvalidMessage(configFile) ==
  "The configuration file \"" \o configFile \o
  "\" is invalid: property \"name\" must be a non-empty string"

NoLanguagesMessage ==
  "Did not detect any languages to analyze. Please update input in workflow."

\* getRequiredEnvParam('RUNNER_TEMP') of a process without it.
RunnerTempMessage == "RUNNER_TEMP environment variable must be set"

\* getConfig: the parsed config file does not exist.
InitActionMessage ==
  "Config file could not be found at expected location. Has the 'init' action been called?"

\* JSON.stringify of a value: a Date is written as its ISO string, NaN as
\* null; strings and finite numbers are written as they are.
JsonValue(v) ==
  IF v.type = "date" THEN [type |-> "string", value |-> v.value]
  ELSE IF v.type = "number" /\ v.value = "NaN"
  THEN [type |-> "null", value |-> "null"]
  ELSE v

\* saveConfig: JSON.stringify(config); the strings of languages, queries and
\* paths are written as they are.
StringifyConfig(config) ==
  JSONstringify([config EXCEPT !.originalUserInput =
                   [k \in DOMAIN @ |-> JsonValue(@[k])]])

\* A process of the job is not inside initConfig or getConfig.
NoCallRunning ==
  pc \in {"idle", "initConfig_returned", "initConfig_threw",
          "getConfig_returned", "getConfig_threw"}

\* A call that threw `message`; nothing is returned.
ConfigCallThrows(message, position) ==
  /\ error' = NewError(message)
  /\ returned' = Undefined
  /\ pc' = position

\* initConfig() in a process of the job: the config is the default one when
\* the config-file input is '' and is loaded from the file otherwise, which
\* throws for an invalid name and for no language; saveConfig then writes
\* it to the parsed config file, which needs RUNNER_TEMP.
InitConfig ==
  /\ NoCallRunning
  /\ inv < MaxInvocations
  /\ inv' = inv + 1
  /\ \E in \in ConfigFileInputs, languages \in LanguageLists,
        runnerTemp \in RunnerTemps :
       IF in.configFile # "" /\ NameIsInvalid(in.parsedYAML)
       THEN /\ ConfigCallThrows(NameInvalidMessage(in.configFile),
                                "initConfig_threw")
            /\ trace' = <<"getInput", "loadConfig">>
            /\ UNCHANGED configLocals
       ELSE IF in.configFile # "" /\ languages = <<>>
       THEN /\ ConfigCallThrows(NoLanguagesMessage, "initConfig_threw")
            /\ trace' = <<"getInput", "loadConfig">>
            /\ UNCHANGED configLocals
       ELSE IF RequiredParamMissing(runnerTemp)
       THEN /\ ConfigCallThrows(RunnerTempMessage, "initConfig_threw")
            /\ trace' = <<"getInput", "loadConfig", "saveConfig">>
            /\ UNCHANGED configLocals
       ELSE LET config == MakeConfig(languages,
                            IF in.configFile = "" THEN EmptyObject
                            ELSE in.parsedYAML)
            IN  /\ parsedConfigFile' =
                     [exists |-> TRUE, text |-> StringifyConfig(config)]
                /\ initConfigReturned' =
                     [completed |-> TRUE, config |-> config]
                /\ returned' = config
                /\ trace' = <<"getInput", "loadConfig", "saveConfig",
                              "writeFile">>
                /\ pc' = "initConfig_returned"
                /\ UNCHANGED error
  /\ UNCHANGED <<env, phase, startedAt, testMode, analysisKey, failed,
                 uploadStats, uploadResult, uploadLocals, reportLocals,
                 jobGhosts, ref, input, argument>>

\* getConfig() in a process of the job: it needs RUNNER_TEMP, throws when
\* the parsed config file does not exist and returns JSON.parse of its
\* contents otherwise.
GetConfig ==
  /\ NoCallRunning
  /\ inv < MaxInvocations
  /\ inv' = inv + 1
  /\ \E runnerTemp \in RunnerTemps :
       IF RequiredParamMissing(runnerTemp)
       THEN /\ ConfigCallThrows(RunnerTempMessage, "getConfig_threw")
            /\ trace' = <<"getRequiredEnvParam">>
       ELSE IF ~parsedConfigFile.exists
       THEN /\ ConfigCallThrows(InitActionMessage, "getConfig_threw")
            /\ trace' = <<"existsSync">>
       ELSE /\ returned' = JSONparse(parsedConfigFile.text)
            /\ trace' = <<"existsSync", "readFile">>
            /\ pc' = "getConfig_returned"
            /\ UNCHANGED error
  /\ UNCHANGED <<env, phase, startedAt, testMode, analysisKey, failed,
                 uploadStats, uploadResult, uploadLocals, reportLocals,
                 jobGhosts, ref, input, argument, configLocals>>

NextConfig ==
  \/ InitConfig
  \/ GetConfig

SpecConfig == Init /\ [][NextConfig]_vars

\* ------------------------------------------------------- helpers of claims
Last(s) == s[Len(s)]
Has(s, x) == \E i \in DOMAIN s : s[i] = x
IsServerError(statusCode) == statusCode \in 500..599
RECURSIVE Sum(_)
Sum(s) == IF s = <<>> THEN 0 ELSE Head(s) + Sum(Tail(s))
\* The events of uploadFiles that must not happen in a duplicate upload.
WorkEvents == {"validate", "merge", "merge_failed", "fingerprint", "put",
               "response", "request_failed", "sleep"}
\* uploadFiles has been entered by the running process and has passed its
\* sentinel check.
PastSentinelCheck == sarifFiles # <<>> /\ pc # "uf_sentinel"

\* ------------------------------------------------------------------- C1
\* C1: an invocation of uploadFiles that starts while the sentinel is set
\* throws the duplicate-upload error in its first step: no request has been
\* sent to the upload endpoint, no workflow lookup is made by it, no file
\* is validated or merged, and the store is left as it was.
C1_DuplicateFailsFirst ==
  [][(pc = "uf_sentinel" /\ env[sentinelEnvVar] # Undefined) =>
       /\ uploadResult' = "threw"
       /\ error' = NewError(DuplicateUploadMessage)
       /\ env' = env
       /\ puts' = <<>> /\ putInvs' = putInvs
       /\ lookups' = lookups
       /\ \A i \in DOMAIN trace' : trace'[i] \notin WorkEvents
       /\ fileIdx' = 1 /\ payload' = NoPayload]_vars

\* C1 witness: a second process of the job has been refused as a duplicate.
C1_Witness ==
  /\ inv >= 2
  /\ uploadResult = "threw"
  /\ error.message = DuplicateUploadMessage
  /\ pc = "get_key"

\* ------------------------------------------------------------------- C2
\* C2: over all the processes of a job, at most one sends a request to the
\* upload endpoint.
C2_AtMostOneUploader == Cardinality(putInvs) <= 1

\* C2 witness: the first process has uploaded and a later one has been
\* through uploadFiles.
C2_Witness ==
  /\ putInvs = {1}
  /\ inv >= 2
  /\ Has(trace, "duplicate")
  /\ pc = "idle"

\* ------------------------------------------------------------------- C3
\* C3: outside test mode the upload returns if and only if a response with
\* status 202 was received; that response is the last one, every request
\* sent was answered before it, and no other status (200 included) ends in
\* a return.
C3_SuccessIff202 ==
  /\ (uploadResult = "returned" /\ ~testMode) =>
        (statuses # <<>> /\ Last(statuses) = 202)
  /\ \A i \in DOMAIN statuses :
        statuses[i] = 202 =>
          /\ i = Len(statuses)
          /\ Len(puts) = i
          /\ uploadResult = "returned"
          /\ pc \notin {"up_request", "up_response", "up_sleep"}
  /\ (statuses # <<>> /\ Last(statuses) # 202) => uploadResult # "returned"

\* C3 witness: an upload that returned after a 5xx and a 202.
C3_Witness ==
  /\ uploadResult = "returned"
  /\ ~testMode
  /\ statuses = <<500, 202>>

\* ------------------------------------------------------------------- C4
\* The requests and sleeps of the running process, in order.
UploadEvents == SelectSeq(trace, LAMBDA ev : ev \in {"put", "sleep"})
\* k+1 requests with one sleep between each two consecutive requests.
Alternating(k) ==
  [i \in 1..(2 * k + 1) |-> IF i % 2 = 1 THEN "put" ELSE "sleep"]
\* The statuses are k server errors followed by a 202.
ServerErrorsThen202(k) ==
  /\ Len(statuses) = k + 1
  /\ \A i \in 1..k : IsServerError(statuses[i])
  /\ statuses[k + 1] = 202

\* C4: for every k in 0..3, when the first k attempts are answered with a
\* 5xx and attempt k with 202, the upload returns after exactly k+1
\* requests, having slept exactly the first k entries of 1s, 5s, 15s in
\* that order, one sleep between each two consecutive requests.
C4_RetryThenSuccess ==
  \A k \in 0..3 :
    ServerErrorsThen202(k) =>
      /\ uploadResult = "returned"
      /\ Len(puts) = k + 1
      /\ sleeps = SubSeq(<<1, 5, 15>>, 1, k)
      /\ UploadEvents = Alternating(k)

\* C4 witness: three server errors, then 202 on the fourth attempt.
C4_Witness ==
  /\ ServerErrorsThen202(3)
  /\ uploadResult = "returned"
  /\ sleeps = <<1, 5, 15>>

\* ------------------------------------------------------------------- C5
\* Four responses, each a server error.
FourServerErrors ==
  /\ Len(statuses) = 4
  /\ \A i \in 1..4 : IsServerError(statuses[i])
\* The error message that names the status, request id and body of r.
MessageCarrying(r) ==
  "Upload failed (" \o r.requestID \o "): (" \o ToString(r.status) \o ") \"" \o
  r.data \o "\""

LastIsFatal ==
  /\ statuses # <<>>
  /\ Last(statuses) # 202
  /\ ~IsServerError(Last(statuses))

\* C6: at any attempt index, a response whose status is absent or neither
\* 202 nor 5xx makes the upload throw at once an error naming that status,
\* request id and body; no request and no sleep follows that response.
C6_FatalStatusFailsAtOnce ==
  LastIsFatal =>
    /\ uploadResult = "threw"
    /\ Len(puts) = Len(statuses)
    /\ Len(sleeps) = Len(statuses) - 1
    /\ pc \notin {"up_sleep", "up_request", "up_response"}
    /\ response.status = Last(statuses)
    /\ Last(trace) = "response" =>
         error.message =
           IF response.status = NoStatus
           THEN "Upload failed (" \o response.requestID \o "): (" \o Undefined
                \o ") \"" \o response.data \o "\""
           ELSE MessageCarrying(response)

\* C6 witness: a response without a status on the third attempt.
C6_Witness ==
  /\ Len(statuses) = 3
  /\ Last(statuses) = NoStatus
  /\ Last(trace) = "response"
  /\ uploadResult = "threw"

\* ------------------------------------------------------------------- C7
\* C7: one uploadPayload call sends at most 4 requests and sleeps at most 3
\* times, 21 seconds in all; the i-th sleep follows a 5xx answer to attempt
\* i-1, i in 1..3, and a pending sleep follows a 5xx on attempt 0, 1 or 2.
C7_BoundedRetry ==
  /\ Len(puts) <= 4
  /\ Len(sleeps) <= 3
  /\ Sum(sleeps) <= 21
  /\ Len(sleeps) <= Len(statuses)
  /\ \A i \in DOMAIN sleeps : i <= 3 /\ IsServerError(statuses[i])
  /\ pc = "up_sleep" =>
       /\ attempt \in 0..2
       /\ Len(statuses) = attempt + 1
       /\ IsServerError(Last(statuses))

\* C7 witness: the fourth request has been sent after 21 seconds of sleep.
C7_Witness ==
  /\ Len(puts) = 4
  /\ Len(sleeps) = 3
  /\ Sum(sleeps) = 21
  /\ pc = "up_response"

\* ------------------------------------------------------------------- C8
\* C8: the process that first enters uploadFiles sets the sentinel before it
\* validates, merges or sends anything; the sentinel then stays set however
\* that invocation ends; and every later invocation of uploadFiles in the
\* job ends as a duplicate without doing any of that work, also when the
\* first one sent nothing.
C8_SentinelFirstAndKept ==
  /\ \A i \in DOMAIN trace :
       trace[i] \in WorkEvents =>
         \E j \in 1..(i - 1) : trace[j] = "sentinel_set"
  /\ PastSentinelCheck /\ Has(trace, "sentinel_set") =>
       /\ env[sentinelEnvVar] = sentinelEnvVar
       /\ sentinelWrites = 1
  /\ sentinelWrites >= 1 => env[sentinelEnvVar] = sentinelEnvVar
  /\ PastSentinelCheck /\ ~Has(trace, "sentinel_set") =>
       /\ sentinelWrites = 1
       /\ Has(trace, "duplicate")
       /\ uploadResult = "threw"
       /\ puts = <<>>
       /\ \A i \in DOMAIN trace : trace[i] \notin WorkEvents

\* C8 witness: the first uploader failed before sending anything, and a
\* later process of the job has been refused as a duplicate.
C8_Witness ==
  /\ putInvs = {}
  /\ sentinelWrites = 1
  /\ Has(trace, "duplicate")
  /\ uploadResult = "threw"
  /\ phase = "failure"

\* ------------------------------------------------------------------- C9
\* C9: once the sentinel is present in the store it stays present with the
\* same value, and it is written at most once in a job.
C9_SentinelStable ==
  [][/\ env[sentinelEnvVar] # Undefined =>
          /\ env'[sentinelEnvVar] = env[sentinelEnvVar]
          /\ sentinelWrites' = sentinelWrites
     /\ sentinelWrites' <= 1]_vars

\* C9 witness: the sentinel was written by the first process and a third
\* process has ended.
C9_Witness ==
  /\ env[sentinelEnvVar] = sentinelEnvVar
  /\ sentinelWrites = 1
  /\ 1 \in putInvs
  /\ inv = 3
  /\ pc = "idle"

\* ------------------------------------------------------------------ C10
\* C10: once the analysis key or the workflow start time is present in the
\* store its value never changes, whatever reports are built and uploads
\* made: each is written only when absent.
C10_CachedFieldsStable ==
  [][\A k \in {CODEQL_ACTION_ANALYSIS_KEY, CODEQL_WORKFLOW_STARTED_AT} :
       env[k] # Undefined => env'[k] = env[k]]_vars

\* C10 witness: a second process has built a report that carries the start
\* time cached by the first, and the analysis key is cached too.
C10_Witness ==
  /\ inv = 2
  /\ startedAt = 2
  /\ pc = "send"
  /\ report.started_at = toISOString(1)
  /\ env[CODEQL_WORKFLOW_STARTED_AT] = toISOString(1)
  /\ env[CODEQL_ACTION_ANALYSIS_KEY] = report.analysis_key
  /\ report.analysis_key # Undefined

\* ------------------------------------------------------------------ C11
\* C11 as stated: all the reports built in a job carry one started_at and
\* one analysis_key, and the workflow lookup is invoked at most once in the
\* job.
C11_LookupAtMostOnce ==
  /\ Cardinality(builtReports) <= 1
  /\ lookups <= 1

\* C11 amended: all the reports built in a job carry one started_at and one
\* analysis_key, and once a lookup has succeeded (the key is in the store)
\* no further lookup is made in the job, by createStatusReportBase or by
\* uploadFiles; a lookup that threw cached nothing and may be repeated.
C11_SameIdentityOneSuccessfulLookup ==
  /\ [](Cardinality(builtReports) <= 1)
  /\ [][env[CODEQL_ACTION_ANALYSIS_KEY] # Undefined => lookups' = lookups]_vars

\* C11 witness: two processes have built reports after one lookup, and the
\* second has been through the getAnalysisKey call of uploadFiles.
C11_Witness ==
  /\ inv = 2
  /\ firstBuilt = 1
  /\ pc = "uf_build"
  /\ lookups = 1
  /\ Cardinality(builtReports) = 1

\* ------------------------------------------------------------------ C12
\* C12 as stated: every report built in a job carries as started_at the
\* actionStartedAt passed to the first createStatusReportBase call of the
\* job, and a report of that first process has started_at equal to its own
\* action_started_at.
C12_StartedAtOfFirstCall ==
  /\ \A b \in builtReports : b[1] = toISOString(firstCall)
  /\ (report # NoReport /\ startedAt = firstCall) =>
        report.started_at = report.action_started_at

\* C12 amended: every report built in a job carries as started_at the
\* actionStartedAt passed to the first createStatusReportBase call of the
\* job that returned a report (a call that throws in getAnalysisKey caches
\* no start time), and that is the value cached in the store; a report
\* built by that process has started_at equal to its own action_started_at.
C12_StartedAtOfFirstReport ==
  /\ \A b \in builtReports : b[1] = toISOString(firstBuilt)
  /\ firstBuilt # 0 => env[CODEQL_WORKFLOW_STARTED_AT] = toISOString(firstBuilt)
  /\ firstBuilt = 0 => env[CODEQL_WORKFLOW_STARTED_AT] = Undefined
  /\ (report # NoReport /\ startedAt = firstBuilt) =>
        report.started_at = report.action_started_at

\* C12 witness: the first call of the job threw in its lookup, the second
\* process built the first report of the job and a third process has built
\* one that carries the start time of the second.
C12_Witness ==
  /\ firstCall = 1
  /\ firstBuilt = 2
  /\ startedAt = 3
  /\ pc = "send"
  /\ report.started_at = toISOString(2)
  /\ report.action_started_at = toISOString(3)

\* ------------------------------------------------------------------ C13
\* C13: of the status reports sent by one run(), the first is the starting
\* report and a success or failure report is the last one sent: at most one
\* terminal report, and none after it, however the upload and the sends end.
C13_StartingThenOneTerminal ==
  /\ reports # <<>> => reports[1].status = "starting"
  /\ \A i \in DOMAIN reports :
       reports[i].status \in {"success", "failure"} => i = Len(reports)

\* ------------------------------------------------------------------ C14
\* C14: when the status endpoint answers the starting report of run() with
\* 403 or 404, the return of sendStatusReport marks the action failed and
\* run() ends there: upload is not called, so the process sets no sentinel
\* and sends no upload request.
C14_StartingRejectedAborts ==
  [][(pc = "sent" /\ phase = "starting" /\ statusResponse \in {403, 404}) =>
       /\ failed'
       /\ pc' = "idle"
       /\ phase' # "upload"]_vars

\* ------------------------------------------------------------------ C15
\* C15: sendStatusReport returns false if and only if ignoreFailures is
\* false and the response status is 403 or 404, and then it has marked the
\* action failed; for every other status, and for every status when
\* ignoreFailures is true, it returns true and leaves the failed mark as it
\* was.
C15_FalseIffStrictRejection ==
  [][pc = "sent" =>
       /\ (sendResult' = FALSE) <=>
            (~IgnoreFailures /\ statusResponse \in {403, 404})
       /\ sendResult' = FALSE => failed'
       /\ sendResult' = TRUE => failed' = failed]_vars

\* C15 witness: the failure report of a process was answered 403 or 404
\* under strict checking and sendStatusReport has returned false.
C15_Witness ==
  /\ pc = "idle"
  /\ sendResult = FALSE
  /\ failed
  /\ Len(reports) = 2
  /\ reports[2].status = "failure"

\* ------------------------------------------------------------------ C16
\* C16: when upload has returned, whatever status the endpoint answers to
\* the success report (403 and 404 included), sendStatusReport returns with
\* the action not marked failed and run() does not go on to a failure
\* report.
C16_TelemetryNeverFailsUpload ==
  [][(pc = "sent" /\ phase = "success" /\ uploadResult = "returned") =>
       /\ ~failed'
       /\ phase' # "failure"]_vars

\* ------------------------------------------------------------------ C17
\* C17: when upload has thrown in run(), the action is marked failed, the
\* report built next is a failure report with its cause and exception
\* fields both populated, and no success report is sent.
C17_UploadErrorReported ==
  (uploadResult = "threw" /\ phase = "failure") =>
     /\ failed
     /\ pc \in {"send", "sent", "idle"} =>
          /\ report.status = "failure"
          /\ report.cause # Undefined
          /\ report.exception # Undefined
     /\ \A i \in DOMAIN reports : reports[i].status # "success"

\* ------------------------------------------------------------------ C18
\* C18: a report built by createStatusReportBase has the completed_at field
\* if and only if its status is success, failure or aborted; a starting
\* report has none.
C18_CompletedAtIffTerminal ==
  report # NoReport =>
     /\ (report.completed_at # Undefined) <=>
          report.status \in {"success", "failure", "aborted"}
     /\ report.status = "starting" => report.completed_at = Undefined
     /\ report.status = phase

\* C18 witness: an aborted report has been built and carries completed_at.
C18_Witness ==
  /\ pc = "send"
  /\ report.status = "aborted"
  /\ report.completed_at = toISOString(inv)

\* ------------------------------------------------------------------ C19
\* C19 as stated: whatever the status and the cause and exception
\* arguments, a report built by createStatusReportBase has the cause field,
\* and the exception field, if and only if its status is failure.
C19_CauseIffFailure ==
  report # NoReport =>
     /\ (report.cause # Undefined) <=> (report.status = "failure")
     /\ (report.exception # Undefined) <=> (report.status = "failure")

\* C19 amended: whatever the status, a report built by
\* createStatusReportBase has the cause field if and only if a non-empty
\* cause argument was supplied, and then the field is that argument; the
\* same holds of exception.
C19_CauseIffSupplied ==
  report # NoReport =>
     /\ (report.cause # Undefined) <=> error.message \notin {Undefined, ""}
     /\ report.cause # Undefined => report.cause = error.message
     /\ (report.exception # Undefined) <=> error.stack \notin {Undefined, ""}
     /\ report.exception # Undefined => report.exception = error.stack

\* C19 witness: a failure report built from an empty cause and a supplied
\* exception: it has the exception field and no cause field.
C19_Witness ==
  /\ pc = "send"
  /\ report.status = "failure"
  /\ error.message = ""
  /\ error.stack = "text"
  /\ report.cause = Undefined
  /\ report.exception = "text"

\* ------------------------------------------------------------------ C20
\* C20: every request of one uploadPayload call carries the same payload,
\* the one uploadFiles built before the first request: the payload is
\* neither rebuilt nor modified between the attempts.
C20_PayloadSameOnEveryAttempt ==
  /\ [](puts # <<>> =>
          /\ payload # NoPayload
          /\ payload = BuildPayload(env, analysisKey, sarifFiles)
          /\ \A i \in DOMAIN puts : puts[i] = payload)
  /\ [][(pc \in {"up_request", "up_response", "up_sleep"}) =>
          payload' = payload]_vars

\* C20 witness: four requests have been sent, after three server errors and
\* three sleeps, all with the payload uploadFiles built.
C20_Witness ==
  /\ Len(puts) = 4
  /\ Len(sleeps) = 3
  /\ pc = "up_response"
  /\ \A i \in 1..4 : puts[i] = payload
  /\ payload.sarif # Undefined

\* ------------------------------------------------------------------ C21
\* C21: a process whose uploadPayload found TEST_MODE set has returned from
\* upload with its statistics without sending a request to the upload
\* endpoint and without sleeping, and it has set the sentinel.
C21_TestModeNoDelivery ==
  testMode =>
     /\ uploadResult = "returned"
     /\ uploadStats = BuildStats(sarifFiles)
     /\ puts = <<>> /\ statuses = <<>> /\ sleeps = <<>>
     /\ inv \notin putInvs
     /\ \A i \in DOMAIN trace : trace[i] \notin {"put", "response", "sleep"}
     /\ Has(trace, "sentinel_set")
     /\ env[sentinelEnvVar] = sentinelEnvVar

\* C21 witness: a process in test mode has built its success report, which
\* carries the statistics of the upload, and no request was sent in the job.
C21_Witness ==
  /\ testMode
  /\ pc = "send"
  /\ report.status = "success"
  /\ report.stats = BuildStats(sarifFiles)
  /\ Len(sarifFiles) = 2
  /\ putInvs = {}

\* ------------------------------------------------------------------ C22
\* Number of occurrences of x in s.
Count(s, x) == Len(SelectSeq(s, LAMBDA e : e = x))
\* Some file handed to uploadFiles does not pass the schema.
AnyInvalid == \E i \in DOMAIN sarifFiles : ~sarifFiles[i].valid
\* The first file that does not pass the schema.
FirstInvalid ==
  CHOOSE i \in DOMAIN sarifFiles :
    ~sarifFiles[i].valid /\ \A j \in 1..(i - 1) : sarifFiles[j].valid
\* uploadFiles has thrown out of its validation loop.
ValidationThrew ==
  uploadResult = "threw" /\ AnyInvalid /\ Has(trace, "validate")

\* C22: when some input file does not pass the schema, uploadFiles throws
\* out of its validation loop: nothing is merged or fingerprinted, no
\* payload is built and no request is sent; and the files are validated one
\* after the other, each at most once, none again after a failure.
C22_InvalidFileStopsUpload ==
  /\ Count(trace, "validate") =
       IF ValidationThrew THEN fileIdx ELSE fileIdx - 1
  /\ Count(trace, "validate") <= Len(sarifFiles)
  /\ AnyInvalid =>
       /\ \A i \in DOMAIN trace :
            trace[i] \notin {"merge", "merge_failed", "fingerprint", "put"}
       /\ payload = NoPayload
       /\ puts = <<>>
       /\ inv \notin putInvs
       /\ uploadStats = NoStats
       /\ (Has(trace, "sentinel_set") /\ pc # "uf_validate") =>
            /\ ValidationThrew
            /\ fileIdx = FirstInvalid

\* C22 witness: the second of two files did not pass the schema; both were
\* validated once and run() is on its way to the failure report.
C22_Witness ==
  /\ Len(sarifFiles) = 2
  /\ sarifFiles[1].valid
  /\ ~sarifFiles[2].valid
  /\ ValidationThrew
  /\ Count(trace, "validate") = 2
  /\ phase = "failure"
  /\ pc = "csrb_build"

\* ------------------------------------------------------------------ C23
\* The text validateSarifFileSchema is to raise for the file at path with
\* the violations errs (one or two of them), written out in full.
ListsEvery(path, errs) ==
  "Unable to upload \"" \o path \o "\" as it is not valid SARIF:\n- " \o
  (IF Len(errs) = 1 THEN errs[1] ELSE errs[1] \o "\n- " \o errs[2])
\* The message is the one raised for some file and lists the violation v.
Mentions(message, v) ==
  \E i \in DOMAIN sarifFiles, errs \in ErrorLists :
     message = ListsEvery(SarifPath(i), errs) /\ Has(errs, v)

\* run() holds the error thrown by the validation: nothing has thrown since.
ValidationErrorCaught ==
  ValidationThrew /\ ~Has(trace, "status_put_failed")

PhaseEvents ==
  SelectSeq(trace, LAMBDA e : e \in {"validate", "merge", "merge_failed",
                                     "fingerprint", "put"})
\* Position of a phase in the order the spec states and in the order of
\* uploadFiles.
StatedRank(e) ==
  CASE e \in {"merge", "merge_failed"} -> 1
    [] e = "validate" -> 2
    [] e = "fingerprint" -> 3
    [] e = "put" -> 4
CodeRank(e) ==
  CASE e = "validate" -> 1
    [] e \in {"merge", "merge_failed"} -> 2
    [] e = "fingerprint" -> 3
    [] e = "put" -> 4

C28_EmptyDirectoryFailsClean ==
  [][/\ (pc = "upload_list" /\ input.kind = "dir" /\ input.files = <<>>) =>
          /\ uploadResult' = "threw"
          /\ error' = NewError(NoSarifFilesMessage)
          /\ env' = env
          /\ sentinelWrites' = sentinelWrites
          /\ putInvs' = putInvs
          /\ lookups' = lookups
          /\ sarifFiles' = <<>>
          /\ puts' = <<>>
          /\ trace' = trace
     /\ (pc = "upload_list" /\ input.kind = "dir" /\ input.files # <<>>) =>
          /\ sarifFiles' = input.files
          /\ uploadResult' = "none"]_vars

\* C28 witness: the first process of the job was given a directory without
\* .sarif files: upload has thrown and the sentinel is not set.
C28_Witness ==
  /\ inv = 1
  /\ uploadResult = "threw"
  /\ error.message = NoSarifFilesMessage
  /\ env[sentinelEnvVar] = Undefined
  /\ sentinelWrites = 0
  /\ phase = "failure"
  /\ pc = "get_key"

\* ------------------------------------------------------------------ C25
\* What was compressed into a payload.
Gunzip(zipped) == zipped[2]

AllSameVersion(files) ==
  \A i \in DOMAIN files : files[i].version = files[1].version
RECURSIVE RunsBefore(_, _)
\* Number of runs held by the files before file i.
RunsBefore(files, i) ==
  IF i = 1 THEN 0 ELSE RunsBefore(files, i - 1) + Len(files[i - 1].runs)

\* C26: combineSarifFiles on files that all declare one version returns a
\* document of that version whose runs are those of the files, file after
\* file and in the order of each file: run j of file i is at position
\* (number of runs of the files before i) + j, and there is no other run.
C26_RunsConcatenatedInOrder ==
  (pc \in {"combined", "combine_threw"} /\ AllSameVersion(argument)) =>
     /\ pc = "combined"
     /\ LET doc == JSONparse(returned)
            n == Len(argument)
        IN  /\ n > 0 => doc.version = argument[1].version
            /\ Len(doc.runs) = RunsBefore(argument, n + 1)
            /\ \A i \in 1..n : \A j \in DOMAIN argument[i].runs :
                  doc.runs[RunsBefore(argument, i) + j] = argument[i].runs[j]

\* C26 witness: two files of version 2.1.0, the first with two different
\* runs and the second with the same run twice, were combined into a
\* document of four runs.
C26_Witness ==
  /\ pc = "combined"
  /\ Len(argument) = 2
  /\ argument[1] = [version |-> "2.1.0", runs |-> <<RunB, RunA>>]
  /\ argument[2] = [version |-> "2.1.0", runs |-> <<RunA, RunA>>]
  /\ JSONparse(returned) =
       [version |-> "2.1.0", runs |-> <<RunB, RunA, RunA, RunA>>]

\* ------------------------------------------------------------------ C27
\* Some file after the first declares another version than the first.
LaterVersionDiffers(files) ==
  \E i \in 2..Len(files) : files[i].version # files[1].version
\* The first file whose version is not that of the first file.
FirstDiffering(files) ==
  CHOOSE i \in 2..Len(files) :
    /\ files[i].version # files[1].version
    /\ \A j \in 2..(i - 1) : files[j].version = files[1].version

\* C27: whatever the first file declares as its version (null and a missing
\* version included), combineSarifFiles returns a document of the first
\* file's version, and it throws the mismatch error naming the two versions
\* whenever a later file declares another version.
C27_FirstVersionWinsOrMismatch ==
  /\ pc = "combined" =>
        /\ ~LaterVersionDiffers(argument)
        /\ argument # <<>> => JSONparse(returned).version = argument[1].version
  /\ pc = "combine_threw" =>
        /\ LaterVersionDiffers(argument)
        /\ error.text =
             "Different SARIF versions encountered: " \o argument[1].version
             \o " and " \o argument[FirstDiffering(argument)].version

\* ------------------------------------------------------------------ C30
\* The results of a document, each as (position of its run, position in it).
ResultPositions(runs) ==
  UNION {{<<i, j>> : j \in DOMAIN runs[i].results} : i \in DOMAIN runs}

\* C30: countResultsInSarif returns the number of results of the document,
\* counted over all its runs: 8 for two runs of three and five results, 0
\* for a document without runs.
C30_CountIsSumOverRuns ==
  pc = "counted" =>
     LET runs == JSONparse(argument).runs
     IN  /\ returned = Cardinality(ResultPositions(runs))
         /\ runs = <<RunB, RunA>> => returned = 8
         /\ runs = <<>> => returned = 0

\* C30 witness: a document of two runs with five and three results has
\* been counted as 8.
C30_Witness ==
  /\ pc = "counted"
  /\ JSONparse(argument).runs = <<RunB, RunA>>
  /\ Len(RunB.results) = 5
  /\ Len(RunA.results) = 3
  /\ returned = 8

\* ------------------------------------------------------------------ C29
\* The upload of the current process has been given up: the last answer of
\* the upload endpoint is final and is not a 202.
DeliveryFailed ==
  /\ statuses # <<>>
  /\ Last(statuses) # Accepted
  /\ pc \notin {"up_sleep", "up_request", "up_response"}

\* C29: upload has returned statistics only in test mode or after a 202
\* answer of the upload endpoint; an upload that threw, and one whose
\* delivery failed, has returned no statistics; and every success report,
\* built or sent, belongs to a process whose upload has returned and
\* carries the statistics upload returned, while the other reports carry
\* none.
C29_StatsOnlyAfterDelivery ==
  /\ uploadResult = "returned" =>
        /\ testMode \/ (statuses # <<>> /\ Last(statuses) = Accepted)
        /\ uploadStats = BuildStats(sarifFiles)
  /\ uploadStats # NoStats => uploadResult = "returned"
  /\ uploadResult = "threw" => uploadStats = NoStats
  /\ DeliveryFailed => uploadResult = "threw" /\ uploadStats = NoStats
  /\ phase = "success" => uploadResult = "returned"
  /\ \A r \in {reports[i] : i \in DOMAIN reports}
          \cup (IF report = NoReport THEN {} ELSE {report}) :
        IF r.status = "success"
        THEN uploadResult = "returned" /\ r.stats = uploadStats
                                       /\ r.stats # NoStats
        ELSE r.stats = NoStats

\* C29 witness: after a 5xx answer and a 202 answer upload has returned its
\* statistics, and the success report that carries them has been sent.
C29_Witness ==
  /\ ~testMode
  /\ Len(statuses) = 2
  /\ statuses[1] = ServerErrorMin
  /\ statuses[2] = Accepted
  /\ uploadResult = "returned"
  /\ reports # <<>>
  /\ Last(reports).status = "success"
  /\ Last(reports).stats = uploadStats
  /\ uploadStats.num_results_in_sarif = 2

\* ------------------------------------------------------------------ C31
\* The runs of the document getToolNames was applied to.
RunsOf(text) ==
  IF "runs" \in DOMAIN JSONparse(text) THEN JSONparse(text).runs ELSE <<>>

\* The driver name of a run is a string that is not empty.
HasName(run) ==
  /\ DriverName(run).type = "string"
  /\ DriverName(run).value # ""

\* The names of the runs that have one, each at its first appearance.
FirstAppearances(runs) ==
  LET first == SelectSeq([i \in DOMAIN runs |-> i],
                 LAMBDA i : /\ HasName(runs[i])
                            /\ \A j \in 1..(i - 1) :
                                  DriverName(runs[j]) # DriverName(runs[i]))
  IN  [k \in DOMAIN first |-> DriverName(runs[first[k]]).value]

\* C31: getToolNames returns the non-empty string driver names of the runs
\* of the document, each once, in the order of their first appearance among
\* the runs.
C31_DistinctNamesInFirstAppearanceOrder ==
  pc = "tool_names" => returned = FirstAppearances(RunsOf(argument))

\* ------------------------------------------------------------------ C32
\* The positions of a process inside uploadPayload.
InUploadPayload == pc \in {"up_start", "up_request", "up_response", "up_sleep"}

\* The statement after the retry loop has thrown.
FellThrough == error.message = "Upload failed"

\* C32: when every request is answered, a call of uploadPayload comes to an
\* end; it has then returned, in test mode or after a 202 answer, or thrown
\* the error made from the last answer, which states its status; the head
\* of the loop is never reached with the attempts used up, and the error of
\* the statement after the loop is never thrown.
C32_UploadPayloadTerminates ==
  /\ (pc = "up_start") ~> ~InUploadPayload
  /\ [](pc = "up_request" => LoopContinues(attempt))
  /\ [](~FellThrough)
  /\ []((statuses # <<>> /\ ~InUploadPayload) =>
          \/ /\ Last(statuses) = Accepted
             /\ uploadResult = "returned"
          \/ /\ Last(statuses) # Accepted
             /\ uploadResult = "threw"
             /\ Last(statuses) = response.status
             /\ (phase = "failure" /\ pc \in {"get_key", "csrb_build"}) =>
                   error.message =
                     "Upload failed (" \o response.requestID \o "): (" \o
                     (IF response.status = NoStatus THEN Undefined
                      ELSE ToString(response.status)) \o ") \"" \o
                     response.data \o "\"")

\* C32 witness: the fourth request has been answered with a 5xx status and
\* uploadPayload has thrown the error of that answer.
C32_Witness ==
  /\ Len(statuses) = 4
  /\ Last(statuses) = 599
  /\ attempt = 3
  /\ ~InUploadPayload
  /\ uploadResult = "threw"
  /\ error.message = UploadFailedMessage(response)
  /\ ~FellThrough

\* ------------------------------------------------------------------ C33
\* The running process has ended because should_abort answered true.
Aborted == pc = "idle" /\ inv > 0 /\ trace = <<"should_abort">>

\* The store, the reports and the upload are as run() found them.
NothingDoneYet ==
  /\ report = NoReport
  /\ reports = <<>>
  /\ uploadResult = "none"
  /\ uploadStats = NoStats
  /\ sarifFiles = <<>>
  /\ payload = NoPayload
  /\ puts = <<>>

\* C33: the should_abort call of run() answers true exactly when GITHUB_REF
\* is unset (run() does not require the init action); it then marks the
\* action failed and run() ends with no report built or sent, upload not
\* called and the environment store, like the rest of the job's history, as
\* it was; otherwise the action is not marked failed and run() goes on.  For
\* any caller should_abort answers true exactly when GITHUB_REF is unset or
\* the init action is required and its completion mark is unset.
C33_AbortEndsRunUntouched ==
  /\ [][(pc = "should_abort") =>
          /\ (pc' = "idle") <=> (ref = Undefined)
          /\ (pc' = "get_key") <=> (ref # Undefined)
          /\ failed' <=> (ref = Undefined)
          /\ env' = env
          /\ <<reportLocals, uploadLocals, jobGhosts>>' =
               <<reportLocals, uploadLocals, jobGhosts>>
          /\ uploadResult' = uploadResult]_vars
  /\ [](pc = "should_abort" => ~failed /\ NothingDoneYet)
  /\ [](Aborted => failed /\ ref = Undefined /\ NothingDoneYet)
  /\ [](\A githubRef \in Refs, initCompleted \in InitCompleted :
          /\ should_abort(githubRef, FALSE, initCompleted)
               <=> (githubRef = Undefined)
          /\ should_abort(githubRef, TRUE, initCompleted)
               <=> (githubRef = Undefined \/ initCompleted = Undefined))

\* C33 witness: the second process of a job found GITHUB_REF unset and has
\* ended marked failed, after a first process that set the sentinel; it has
\* built and sent nothing.
C33_Witness ==
  /\ Aborted
  /\ inv = 2
  /\ ref = Undefined
  /\ failed
  /\ reports = <<>>
  /\ env[sentinelEnvVar] = sentinelEnvVar

\* ------------------------------------------------------------------ C34
\* The reports of the running process, sent or built.
ReportsOfProcess ==
  {reports[i] : i \in DOMAIN reports}
  \cup (IF report = NoReport THEN {} ELSE {report})

\* C34: while upload runs, and ever after in the process, the starting
\* report has been sent and CODEQL_WORKFLOW_STARTED_AT is set in the store;
\* the payload uploadFiles builds carries that value as started_at, as do
\* the requests sent, the starting report and the success or failure report
\* of the process, which is the start time cached for the job.
C34_PayloadStartedAtIsTheReports ==
  /\ phase = "upload" =>
        /\ env[CODEQL_WORKFLOW_STARTED_AT] # Undefined
        /\ reports # <<>>
        /\ reports[1].status = "starting"
        /\ reports[1].started_at = env[CODEQL_WORKFLOW_STARTED_AT]
  /\ payload # NoPayload =>
        /\ payload.started_at # Undefined
        /\ payload.started_at = env[CODEQL_WORKFLOW_STARTED_AT]
        /\ payload.started_at = toISOString(firstBuilt)
        /\ \A r \in ReportsOfProcess : r.started_at = payload.started_at
        /\ \A i \in DOMAIN puts : puts[i].started_at = payload.started_at
        /\ \E r \in ReportsOfProcess : r.status = "starting"

\* C34 witness: the second process of a job, whose first process cached
\* the start time and did not upload, has uploaded a payload with the start
\* time of the first and sent its success report with the same one.
C34_Witness ==
  /\ startedAt = 2
  /\ payload # NoPayload
  /\ payload.started_at = toISOString(1)
  /\ puts # <<>>
  /\ Len(reports) = 2
  /\ reports[1].status = "starting"
  /\ reports[2].status = "success"
  /\ reports[2].started_at = toISOString(1)
  /\ reports[2].action_started_at = toISOString(2)

\* ------------------------------------------------------------------ C35
\* C35: a getConfig call made while no initConfig call has completed in the
\* job throws the error that asks whether the init action has been called;
\* a getConfig call made after an initConfig call has completed returns a
\* config equal to the one the last such call returned; and a getConfig
\* call reads no input of the user and leaves the parsed config file as it
\* is.
C35_GetConfigReturnsInitConfig ==
  /\ [](pc \in {"getConfig_returned", "getConfig_threw"} =>
          /\ ~initConfigReturned.completed =>
                /\ pc = "getConfig_threw"
                /\ error.message = InitActionMessage
          /\ (initConfigReturned.completed /\ pc = "getConfig_returned") =>
                returned = initConfigReturned.config
          /\ \A i \in DOMAIN trace :
                trace[i] \notin {"getInput", "loadConfig", "saveConfig",
                                 "writeFile"})
  /\ [][(pc' \in {"getConfig_returned", "getConfig_threw"}) =>
          parsedConfigFile' = parsedConfigFile]_vars

====
